---- MODULE Spec2Model ----
(***************************************************************************)
(* The MRG32k3a generator of simopt/rng/mrg32k3a.py with its stream /      *)
(* substream / subsubstream hierarchy.                                     *)
(*                                                                         *)
(* Python integers are unbounded; TLC's are 32-bit and the moduli exceed   *)
(* 2^31.  Every program integer is therefore a sign-magnitude value        *)
(* [neg, mag], mag a little-endian sequence of base-10000 limbs without    *)
(* leading zero limbs.  The Z* operators are exact integer arithmetic.     *)
(***************************************************************************)
EXTENDS Integers, Sequences, FiniteSets, TLC

VARIABLES
    rng,    \* the MRG32k3a object
    u,      \* <<value returned by the last call>>, <<>> when it returned None
    op,     \* the name of the last call
    arg,    \* the argument of the last call besides rng, <<>> without one
    draws,  \* consecutive random() calls just made
    obs,    \* what the caller of a scenario has written down
    raised, \* the exception the last call raised, "" when it returned
    gens,   \* several MRG32k3a objects, s_ss_sss_index a reference into lists
    lists   \* the list objects that generators and callers refer to

vars == <<rng, u, op, arg, draws, obs, raised, gens, lists>>

-----------------------------------------------------------------------------
(* Natural numbers as limb sequences                                       *)

Base == 100 * 100

Limb(a, i) == IF i <= Len(a) THEN a[i] ELSE 0

MaxOf(x, y) == IF x >= y THEN x ELSE y

RECURSIVE Trim(_)
Trim(a) ==
    IF a = <<>> THEN a
    ELSE IF a[Len(a)] = 0 THEN Trim(SubSeq(a, 1, Len(a) - 1)) ELSE a

\* Carry propagation through the column sums cols[i..], incoming carry c.
\* Columns may be negative (subtraction); \div is floor division.
RECURSIVE Carry(_, _, _)
Carry(cols, i, c) ==
    IF i > Len(cols) /\ c = 0 THEN <<>>
    ELSE LET s == Limb(cols, i) + c
         IN  <<s % Base>> \o Carry(cols, i + 1, s \div Base)

\* -1, 0, 1 as a < b, a = b, a > b; limbs compared from position i down.
RECURSIVE CmpFrom(_, _, _)
CmpFrom(a, b, i) ==
    IF i = 0 THEN 0
    ELSE IF a[i] < b[i] THEN -1
    ELSE IF a[i] > b[i] THEN 1
    ELSE CmpFrom(a, b, i - 1)

NatCmp(a, b) ==
    IF Len(a) < Len(b) THEN -1
    ELSE IF Len(a) > Len(b) THEN 1
    ELSE CmpFrom(a, b, Len(a))

\* the column sums f[1], ..., f[n] as one sequence, each computed once
Columns(f) == <<>> \o f

NatAdd(a, b) ==
    Carry(Columns([i \in 1..MaxOf(Len(a), Len(b)) |-> Limb(a, i) + Limb(b, i)]),
          1, 0)

\* a - b for a >= b
NatSub(a, b) ==
    Trim(Carry(Columns([i \in 1..Len(a) |-> a[i] - Limb(b, i)]), 1, 0))

\* sum over j = i..Len(a) of a[j] * b[k+1-j]: column k of the product
RECURSIVE Conv(_, _, _, _)
Conv(a, b, k, i) ==
    IF i > Len(a) \/ i > k THEN 0
    ELSE (IF k + 1 - i <= Len(b) THEN a[i] * b[k + 1 - i] ELSE 0)
         + Conv(a, b, k, i + 1)

NatMul(a, b) ==
    IF a = <<>> \/ b = <<>> THEN <<>>
    ELSE Trim(Carry(Columns([k \in 1..(Len(a) + Len(b) - 1) |-> Conv(a, b, k, 1)]),
                    1, 0))

\* a * d for a native 0 <= d < Base
NatMulSmall(a, d) ==
    IF d = 0 THEN <<>> ELSE Carry(Columns([i \in 1..Len(a) |-> a[i] * d]), 1, 0)

\* A first guess of the quotient digit cur \div m (cur < m * Base) from the
\* leading limbs rh, rl of cur and mt of m; FixDigit makes it exact whatever
\* the guess.
Guess(rh, rl, mt) ==
    (rh \div mt) * Base
    + ((((rh % mt) * 100) + (rl \div 100)) \div mt) * 100
    + ((((((rh % mt) * 100) + (rl \div 100)) % mt) * 100 + (rl % 100)) \div mt)

Estimate(cur, m) ==
    IF Len(m) = 1 THEN (Limb(cur, 2) * Base + Limb(cur, 1)) \div m[1]
    ELSE IF m[Len(m)] >= 2000
         THEN (Limb(cur, Len(m) + 1) * Base + Limb(cur, Len(m))) \div m[Len(m)]
    ELSE Guess(Limb(cur, Len(m) + 1) * Base + Limb(cur, Len(m)),
               Limb(cur, Len(m) - 1),
               m[Len(m)] * Base + m[Len(m) - 1])

\* The digit d with d*m <= cur < (d+1)*m and the remainder cur - d*m,
\* searched from the guess d: p is d*m, r is cur - p.
RECURSIVE FixDigit(_, _, _)
RECURSIVE FixProduct(_, _, _, _)
RECURSIVE FixRemainder(_, _, _, _)
FixDigit(cur, m, d) ==
    IF d < 0 THEN FixDigit(cur, m, 0)
    ELSE IF d >= Base THEN FixDigit(cur, m, Base - 1)
    ELSE FixProduct(cur, m, d, NatMulSmall(m, d))

FixProduct(cur, m, d, p) ==
    IF NatCmp(p, cur) = 1 THEN FixDigit(cur, m, d - 1)
    ELSE FixRemainder(cur, m, d, NatSub(cur, p))

FixRemainder(cur, m, d, r) ==
    IF NatCmp(r, m) >= 0 THEN FixDigit(cur, m, d + 1)
    ELSE [d |-> d, r |-> r]

\* r * Base + x
PushLimb(x, r) == IF r = <<>> /\ x = 0 THEN <<>> ELSE <<x>> \o r

PutDigit(q, f) == [q |-> <<f.d>> \o q, r |-> f.r]

\* one step of the long division: q the quotient so far, cur the running
\* remainder with the next limb of the dividend appended
DivStep(m, q, cur) ==
    IF NatCmp(cur, m) < 0 THEN [q |-> PushLimb(0, q), r |-> cur]
    ELSE PutDigit(q, FixDigit(cur, m, Estimate(cur, m)))

DivNext(a, m, i, up) == DivStep(m, up.q, PushLimb(a[i], up.r))

\* Long division of the limbs i..Len(a) of a by m > 0: quotient and remainder.
RECURSIVE DivFrom(_, _, _)
DivFrom(a, m, i) ==
    IF i > Len(a) THEN [q |-> <<>>, r |-> <<>>]
    ELSE DivNext(a, m, i, DivFrom(a, m, i + 1))

NatDivMod(a, m) == DivFrom(a, m, 1)

-----------------------------------------------------------------------------
(* Signed integers                                                         *)

ZMk(neg, mag) == [neg |-> neg /\ mag # <<>>, mag |-> mag]

\* the integer hi*10^8 + mid*10^4 + lo, written in groups of four digits
Int3(hi, mid, lo) == ZMk(FALSE, Trim(<<lo, mid, hi>>))

\* a native integer n >= 0
ZOf(n) == ZMk(FALSE, Trim(<<n % Base, (n \div Base) % Base, n \div (Base * Base)>>))

Zero == ZOf(0)

ZNeg(a) == ZMk(~a.neg, a.mag)

ZAdd(a, b) ==
    IF a.neg = b.neg THEN ZMk(a.neg, NatAdd(a.mag, b.mag))
    ELSE IF NatCmp(a.mag, b.mag) >= 0 THEN ZMk(a.neg, NatSub(a.mag, b.mag))
    ELSE ZMk(b.neg, NatSub(b.mag, a.mag))

ZSub(a, b) == ZAdd(a, ZNeg(b))

ZMul(a, b) == ZMk(a.neg # b.neg, NatMul(a.mag, b.mag))

ZLess(a, b) ==
    IF a.neg # b.neg THEN a.neg
    ELSE IF a.neg THEN NatCmp(a.mag, b.mag) = 1
    ELSE NatCmp(a.mag, b.mag) = -1

ZLeq(a, b) == ~ZLess(b, a)

\* int(a / m): the quotient truncated toward zero (m > 0)
ZTruncDiv(a, m) == ZMk(a.neg, NatDivMod(a.mag, m.mag).q)

\* the residue in [0, m) given r = |a| mod m
Residue(neg, m, r) ==
    IF neg /\ r # <<>> THEN ZMk(FALSE, NatSub(m, r)) ELSE ZMk(FALSE, r)

\* a % m of Python: the residue in [0, m) (m > 0)
ZMod(a, m) == Residue(a.neg, m.mag, NatDivMod(a.mag, m.mag).r)

-----------------------------------------------------------------------------
(* Constants of mrg32k3a.py                                                *)

mrgm1 == Int3(42, 9496, 7087)
mrgm2 == Int3(42, 9494, 4443)
mrga12 == 1403580
mrga13n == 810728
mrga21 == 527612
mrga23n == 1370589

\* A1p0 with the sign of a13n lost
A1p0_unsigned ==
    << <<Zero, ZOf(1), Zero>>,
       <<Zero, Zero, ZOf(1)>>,
       <<ZOf(mrga13n), ZOf(mrga12), Zero>> >>

A1p0 ==
    << <<Zero, ZOf(1), Zero>>,
       <<Zero, Zero, ZOf(1)>>,
       <<ZNeg(ZOf(mrga13n)), ZOf(mrga12), Zero>> >>

A2p0 ==
    << <<Zero, ZOf(1), Zero>>,
       <<Zero, Zero, ZOf(1)>>,
       <<ZNeg(ZOf(mrga23n)), Zero, ZOf(mrga21)>> >>

A1p47 ==
    << <<Int3(13, 6255, 7480), Int3(32, 3002, 2138), Int3(42, 7872,  212)>>,
       <<Int3(34, 2738, 6258), Int3(38, 4897, 6950), Int3(32, 3002, 2138)>>,
       <<Int3(21,  981, 7045), Int3(24, 4148, 6578), Int3(38, 4897, 6950)>> >>

A2p47 ==
    << <<Int3(29, 2011, 2852), Int3(19, 6532, 9198), Int3(11, 7714, 1043)>>,
       <<Int3(21, 3525,  851), Int3(29, 2011, 2852), Int3( 9, 6918, 4056)>>,
       <<Int3( 2, 9603, 5385), Int3(21, 3525,  851), Int3(42, 6782, 7987)>> >>

A1p94 ==
    << <<Int3(28, 7376, 9531), Int3(20, 8110, 4178), Int3( 5, 9628, 4397)>>,
       <<Int3(41, 5380,  443), Int3(12, 6126, 9623), Int3(20, 8110, 4178)>>,
       <<Int3(39, 6760,   61), Int3(18, 3002, 3157), Int3(12, 6126, 9623)>> >>

A2p94 ==
    << <<Int3(13, 4729, 1439), Int3(20, 5042, 7676), Int3( 7, 3611, 3023)>>,
       <<Int3(41,  219, 1254), Int3(13, 4729, 1439), Int3( 8, 7862, 7148)>>,
       <<Int3(12, 9350,  383), Int3(41,  219, 1254), Int3( 7, 4564, 6810)>> >>

A1p141 ==
    << <<Int3(32, 3009, 6243), Int3(21, 3172, 3358), Int3(32, 6217, 8024)>>,
       <<Int3(28, 8289,  127), Int3(40, 8851, 8247), Int3(21, 3172, 3358)>>,
       <<Int3(39, 9155, 3306), Int3(12, 8222, 4087), Int3(40, 8851, 8247)>> >>

A2p141 ==
    << <<Int3(21, 9643, 8580), Int3( 8,  538, 6227), Int3(42, 6637, 5092)>>,
       <<Int3(41, 2467, 5351), Int3(21, 9643, 8580), Int3(25, 2796, 1345)>>,
       <<Int3( 0, 9445, 2540), Int3(41, 2467, 5351), Int3(28, 2565, 6399)>> >>

-----------------------------------------------------------------------------
(* The core step                                                           *)

\* the reduction without its correction of a negative remainder
add_if_negative_skipped(p, m) == p

\* lines 110-111 and 116-117: if p < 0.0: p += m
add_if_negative(p, m) == IF ZLess(p, Zero) THEN ZAdd(p, m) ELSE p

\* lines 108-109 and 114-115: k = int(p/m); p -= k*m.  int(p/m) divides
\* floats; |p| < 2^53 and the quotient is below 2^21, so the float quotient
\* truncates to the same integer as the exact one.
subtract_multiple(p, m) == ZSub(p, ZMul(ZTruncDiv(p, m), m))

\* the component with its two coefficients exchanged
component_exchanged(a, x, b, y, m) ==
    add_if_negative(
        subtract_multiple(ZSub(ZMul(ZOf(b), x), ZMul(ZOf(a), y)), m), m)

\* lines 107-111 and 113-117: p = a*x - b*y reduced to a residue
component(a, x, b, y, m) ==
    add_if_negative(
        subtract_multiple(ZSub(ZMul(ZOf(a), x), ZMul(ZOf(b), y)), m), m)

\* the combination comparing p1 < p2 where the code compares p1 <= p2
combination_strict(state, p1, p2) ==
    [new_state |-> <<state[2], state[3], p1, state[5], state[6], p2>>,
     u |-> IF ZLess(p1, p2) THEN ZAdd(ZSub(p1, p2), mrgm1) ELSE ZSub(p1, p2)]

\* lines 119-124; u is held as the integer that the code scales by mrgnorm
combination(state, p1, p2) ==
    [new_state |-> <<state[2], state[3], p1, state[5], state[6], p2>>,
     u |-> IF ZLeq(p1, p2) THEN ZAdd(ZSub(p1, p2), mrgm1) ELSE ZSub(p1, p2)]

\* mrg32k3a(state): [new_state, u]
mrg32k3a(state) ==
    combination(state,
                component(mrga12, state[2], mrga13n, state[1], mrgm1),
                component(mrga21, state[6], mrga23n, state[4], mrgm2))

-----------------------------------------------------------------------------
(* matmodops                                                               *)

\* A[i][1]*b[1] + A[i][2]*b[2] + A[i][3]*b[3]
RowTimes(A, b, i) ==
    ZAdd(ZAdd(ZMul(A[i][1], b[1]), ZMul(A[i][2], b[2])), ZMul(A[i][3], b[3]))

mat33_mat31_mult(A, b) == <<RowTimes(A, b, 1), RowTimes(A, b, 2), RowTimes(A, b, 3)>>

mat31_mod(b, m) == <<ZMod(b[1], m), ZMod(b[2], m), ZMod(b[3], m)>>

\* A[i][1]*B[1][j] + A[i][2]*B[2][j] + A[i][3]*B[3][j]
RowTimesColumn(A, B, i, j) ==
    ZAdd(ZAdd(ZMul(A[i][1], B[1][j]), ZMul(A[i][2], B[2][j])),
         ZMul(A[i][3], B[3][j]))

RowOfProduct(A, B, i) ==
    <<RowTimesColumn(A, B, i, 1), RowTimesColumn(A, B, i, 2),
      RowTimesColumn(A, B, i, 3)>>

mat33_mat33_mult(A, B) ==
    <<RowOfProduct(A, B, 1), RowOfProduct(A, B, 2), RowOfProduct(A, B, 3)>>

mat33_mod(A, m) == <<mat31_mod(A[1], m), mat31_mod(A[2], m), mat31_mod(A[3], m)>>

mat33_mat33_mod(A, B, m) == mat33_mod(mat33_mat33_mult(A, B), m)

-----------------------------------------------------------------------------
(* Bounds of the model                                                     *)

\* advance_* is taken while the index component it increments is below MaxIdx
MaxIdx == 2
\* draws taken between two hierarchy operations
MaxDraws == 2

DefaultSeed ==
    <<ZOf(12345), ZOf(12345), ZOf(12345), ZOf(12345), ZOf(12345), ZOf(12345)>>

\* the advances made at each level when the equivalence is compared
MaxEq == 5
\* the advance_substream calls made before reset_substream
MaxK == 4
\* the operations of a run that is replayed
MaxScript == 3

\* seeds at the two ends of the range: the recursions need one non-zero
\* component in each half
LowSeed == <<Zero, Zero, ZOf(1), Zero, Zero, ZOf(1)>>

HighSeed ==
    <<ZSub(mrgm1, ZOf(1)), ZSub(mrgm1, ZOf(1)), ZSub(mrgm1, ZOf(1)),
      ZSub(mrgm2, ZOf(1)), ZSub(mrgm2, ZOf(1)), ZSub(mrgm2, ZOf(1))>>

\* the ref_seed values a generator is constructed with
RefSeeds == {DefaultSeed, HighSeed}

Seeds == {DefaultSeed, LowSeed, HighSeed}

\* the triplets start_fixed_s_ss_sss is called with
StartTriplets ==
    {<<0, 0, 0>>, <<1, 0, 0>>, <<0, 1, 0>>, <<0, 0, 1>>, <<2, 1, 1>>}

-----------------------------------------------------------------------------
(* class MRG32k3a and the hierarchy functions                              *)

\* seed recording the new state as the subsubstream's start as well
seed_moving_anchor(self, new_state) ==
    [self EXCEPT !.current_state = new_state, !.subsubstream_start = new_state]

\* seed taking the new state as the reference seed as well
seed_moving_ref(self, new_state) ==
    [self EXCEPT !.current_state = new_state, !.ref_seed = new_state]

\* MRG32k3a.seed: assert(len(new_state) == 6), then the assignment
seed(self, new_state) == [self EXCEPT !.current_state = new_state]

\* random without line 188
random_result_stale(self, g) == [rng |-> self, u |-> g.u]

\* lines 187-189: the generator after the call and the value returned
random_result(self, g) == [rng |-> seed(self, g.new_state), u |-> g.u]

\* MRG32k3a.random
random(self) == random_result(self, mrg32k3a(self.current_state))

\* the block shared by advance_* and the loops of start_fixed_s_ss_sss:
\* st1 = state[0:3], st2 = state[3:6], nstate = A1*st1 % m1 + A2*st2 % m2
jump(A1, A2, state) ==
    mat31_mod(mat33_mat31_mult(A1, SubSeq(state, 1, 3)), mrgm1)
    \o mat31_mod(mat33_mat31_mult(A2, SubSeq(state, 4, 6)), mrgm2)

\* lines 256-262
enter_stream(r, nstate) ==
    [seed(r, nstate) EXCEPT !.s_ss_sss_index[1] = @ + 1,
                            !.stream_start = nstate,
                            !.substream_start = nstate,
                            !.subsubstream_start = nstate]

advance_stream(r) == enter_stream(r, jump(A1p141, A2p141, r.stream_start))

\* lines 284-289
enter_substream(r, nstate) ==
    [seed(r, nstate) EXCEPT !.s_ss_sss_index[2] = @ + 1,
                            !.substream_start = nstate,
                            !.subsubstream_start = nstate]

\* advance_substream jumping from the stream's anchor
advance_substream_from_stream(r) ==
    enter_substream(r, jump(A1p94, A2p94, r.stream_start))

advance_substream(r) == enter_substream(r, jump(A1p94, A2p94, r.substream_start))

\* advance_subsubstream ending with the referencing lines of advance_substream
enter_subsubstream_pasted(r, nstate) ==
    [seed(r, nstate) EXCEPT !.s_ss_sss_index[3] = @ + 1,
                            !.substream_start = nstate,
                            !.subsubstream_start = nstate]

\* lines 311-315
enter_subsubstream(r, nstate) ==
    [seed(r, nstate) EXCEPT !.s_ss_sss_index[3] = @ + 1,
                            !.subsubstream_start = nstate]

\* advance_subsubstream jumping from where the draws have left the generator
advance_subsubstream_from_current(r) ==
    enter_subsubstream(r, jump(A1p47, A2p47, r.current_state))

advance_subsubstream(r) ==
    enter_subsubstream(r, jump(A1p47, A2p47, r.subsubstream_start))

\* reset_stream without lines 329-330
reset_stream_anchors_kept(r) ==
    [seed(r, r.stream_start) EXCEPT !.s_ss_sss_index[2] = 0,
                                    !.s_ss_sss_index[3] = 0]

\* reset_stream without its last line
reset_stream_index_kept(r) ==
    [seed(r, r.stream_start) EXCEPT !.substream_start = r.stream_start,
                                    !.subsubstream_start = r.stream_start,
                                    !.s_ss_sss_index[2] = 0]

reset_stream(r) ==
    [seed(r, r.stream_start) EXCEPT !.substream_start = r.stream_start,
                                    !.subsubstream_start = r.stream_start,
                                    !.s_ss_sss_index[2] = 0,
                                    !.s_ss_sss_index[3] = 0]

\* reset_substream returning to the stream's anchor
reset_substream_to_stream(r) ==
    [seed(r, r.stream_start) EXCEPT !.subsubstream_start = r.substream_start,
                                    !.s_ss_sss_index[3] = 0]

\* reset_substream that leaves the subsubstream anchor where it was
reset_substream_current_only(r) ==
    [seed(r, r.substream_start) EXCEPT !.s_ss_sss_index[3] = 0]

reset_substream(r) ==
    [seed(r, r.substream_start) EXCEPT !.subsubstream_start = r.substream_start,
                                       !.s_ss_sss_index[3] = 0]

reset_subsubstream(r) == seed(r, r.subsubstream_start)

\* the loop running once more than range(n)
RECURSIVE jump_loop_inclusive(_, _, _, _)
jump_loop_inclusive(A1, A2, state, n) ==
    IF n < 0 THEN state
    ELSE jump_loop_inclusive(A1, A2, jump(A1, A2, state), n - 1)

\* one of the three loops of start_fixed_s_ss_sss: the jump n times
\* (range(n) is empty for n <= 0)
RECURSIVE jump_loop(_, _, _, _)
jump_loop(A1, A2, state, n) ==
    IF n <= 0 THEN state ELSE jump_loop(A1, A2, jump(A1, A2, state), n - 1)

\* lines 386-401: the second and third loop
fixed_below_substream(sa, sb, t) ==
    [stream_start       |-> sa,
     substream_start    |-> sb,
     subsubstream_start |-> jump_loop(A1p47, A2p47, sb, t[3])]

\* the second loop written with the third loop's matrices
fixed_below_stream_pasted(sa, t) ==
    fixed_below_substream(sa, jump_loop(A1p47, A2p47, sa, t[2]), t)

fixed_below_stream(sa, t) ==
    fixed_below_substream(sa, jump_loop(A1p94, A2p94, sa, t[2]), t)

\* lines 374-401: the three anchors, from ref_seed and the triplet alone
fixed_anchors(ref_seed, s_ss_sss_triplet) ==
    fixed_below_stream(jump_loop(A1p141, A2p141, ref_seed, s_ss_sss_triplet[1]),
                       s_ss_sss_triplet)

\* start_fixed_s_ss_sss without line 403
store_fixed_current_kept(r, a, s_ss_sss_triplet) ==
    [r EXCEPT !.stream_start = a.stream_start,
              !.substream_start = a.substream_start,
              !.subsubstream_start = a.subsubstream_start,
              !.s_ss_sss_index = s_ss_sss_triplet]

\* lines 385, 393, 401-405
store_fixed(r, a, s_ss_sss_triplet) ==
    [seed([r EXCEPT !.stream_start = a.stream_start,
                    !.substream_start = a.substream_start,
                    !.subsubstream_start = a.subsubstream_start],
          a.subsubstream_start)
     EXCEPT !.s_ss_sss_index = s_ss_sss_triplet]

start_fixed_s_ss_sss(r, s_ss_sss_triplet) ==
    store_fixed(r, fixed_anchors(r.ref_seed, s_ss_sss_triplet), s_ss_sss_triplet)

\* MRG32k3a.__init__: the attributes exist once start_fixed_s_ss_sss and
\* Random.__init__ (which calls self.seed(ref_seed)) have run
NoState == <<>>

MRG32k3a(ref_seed) ==
    seed(start_fixed_s_ss_sss(
             [ref_seed |-> ref_seed, current_state |-> NoState,
              stream_start |-> NoState, substream_start |-> NoState,
              subsubstream_start |-> NoState, s_ss_sss_index |-> <<>>],
             <<0, 0, 0>>),
         ref_seed)

-----------------------------------------------------------------------------
(* Calls that may raise: [rng |-> the generator after the call,            *)
(* raised |-> the exception, "" when the call returned]                    *)

\* seed without its assert
seed_call_unchecked(self, new_state) ==
    [rng |-> seed(self, new_state), raised |-> ""]

\* MRG32k3a.seed(new_state): line 172 raises before line 173 assigns
seed_call(self, new_state) ==
    IF Len(new_state) # 6
    THEN [rng |-> self, raised |-> "AssertionError"]
    ELSE [rng |-> seed(self, new_state), raised |-> ""]

\* rng = MRG32k3a(ref_seed) where rng was old: line 156 raises before any
\* attribute is set, and the name keeps the object it had
construct_call(old, ref_seed) ==
    IF Len(ref_seed) # 6
    THEN [rng |-> old, raised |-> "AssertionError"]
    ELSE [rng |-> MRG32k3a(ref_seed), raised |-> ""]

\* rng = MRG32k3a(s_ss_sss_index=[s, ss, sss]) where rng was old, as
\* wrapper_base.py calls it: __init__ (line 155) has the one parameter
\* ref_seed, so the call raises before the body runs
construct_keyword_call(old, s_ss_sss_index) ==
    [rng |-> old, raised |-> "TypeError"]

\* MRG32k3a.getstate; the second component is Random.getstate() of the
\* inherited generator, which no method of the class reads
getstate(self) == <<self.current_state, "Random.getstate()">>

\* MRG32k3a.setstate(state): self.seed(state[0]), then Random.setstate
setstate(self, state) == seed_call(self, state[1])

\* start_fixed_s_ss_sss with any list: s_ss_sss_triplet[0] is read at line
\* 379, [1] at line 387 after line 385 has assigned stream_start, [2] at line
\* 395 after line 393 has assigned substream_start; a list too short raises
\* IndexError there.  range(n) is empty for n < 0 and a longer list is stored
\* whole.
start_fixed_call(r, t) ==
    IF Len(t) = 0 THEN [rng |-> r, raised |-> "IndexError"]
    ELSE IF Len(t) = 1
    THEN [rng |-> [r EXCEPT !.stream_start =
                       jump_loop(A1p141, A2p141, r.ref_seed, t[1])],
          raised |-> "IndexError"]
    ELSE IF Len(t) = 2
    THEN [rng |-> [r EXCEPT
                     !.stream_start =
                         jump_loop(A1p141, A2p141, r.ref_seed, t[1]),
                     !.substream_start =
                         jump_loop(A1p94, A2p94,
                                   jump_loop(A1p141, A2p141, r.ref_seed, t[1]),
                                   t[2])],
          raised |-> "IndexError"]
    ELSE [rng |-> start_fixed_s_ss_sss(r, t), raised |-> ""]

-----------------------------------------------------------------------------
(* The generator driven by its holder                                      *)

NoObs == [phase |-> "free"]

\* one generator whose index list nobody else refers to
Alone == gens = <<>> /\ lists = <<>>

Returns == raised' = "" /\ UNCHANGED <<gens, lists>>

Fresh(seeds) == {MRG32k3a(ref) : ref \in seeds}

Init ==
    /\ rng \in Fresh(RefSeeds)
    /\ u = <<>> /\ op = "init" /\ arg = <<>> /\ draws = 0
    /\ obs = NoObs
    /\ raised = "" /\ Alone

\* the call name(rng) returning None and leaving the generator as next
Call(name, next) ==
    /\ rng' = next
    /\ u' = <<>> /\ op' = name /\ arg' = <<>> /\ draws' = 0
    /\ Returns

\* u = rng.random()
Random ==
    /\ rng' = random(rng).rng
    /\ u' = <<random(rng).u>>
    /\ op' = "random" /\ arg' = <<>> /\ draws' = draws + 1
    /\ Returns

\* start_fixed_s_ss_sss(rng, [s, ss, sss]) with a list of the caller's own
StartFixedAt(t) ==
    /\ rng' = start_fixed_s_ss_sss(rng, t)
    /\ u' = <<>> /\ op' = "start_fixed_s_ss_sss" /\ arg' = t /\ draws' = 0
    /\ Returns

Draw == draws < MaxDraws /\ Random /\ UNCHANGED obs

AdvanceStream ==
    /\ rng.s_ss_sss_index[1] < MaxIdx
    /\ Call("advance_stream", advance_stream(rng))
    /\ UNCHANGED obs

AdvanceSubstream ==
    /\ rng.s_ss_sss_index[2] < MaxIdx
    /\ Call("advance_substream", advance_substream(rng))
    /\ UNCHANGED obs

AdvanceSubsubstream ==
    /\ rng.s_ss_sss_index[3] < MaxIdx
    /\ Call("advance_subsubstream", advance_subsubstream(rng))
    /\ UNCHANGED obs

ResetStream == Call("reset_stream", reset_stream(rng)) /\ UNCHANGED obs

ResetSubstream == Call("reset_substream", reset_substream(rng)) /\ UNCHANGED obs

ResetSubsubstream ==
    Call("reset_subsubstream", reset_subsubstream(rng)) /\ UNCHANGED obs

StartFixed == (\E t \in StartTriplets : StartFixedAt(t)) /\ UNCHANGED obs

Next ==
    \/ Draw
    \/ AdvanceStream
    \/ AdvanceSubstream
    \/ AdvanceSubsubstream
    \/ ResetStream
    \/ ResetSubstream
    \/ ResetSubsubstream
    \/ StartFixed

Spec == Init /\ [][Next]_vars

-----------------------------------------------------------------------------
(* Properties of the hierarchy operations, under Spec                      *)

idx == rng.s_ss_sss_index

Anchors(r) ==
    [stream_start |-> r.stream_start, substream_start |-> r.substream_start,
     subsubstream_start |-> r.subsubstream_start]

\* C2: after any sequence of operations the three anchors are the ones
\* start_fixed_s_ss_sss derives from ref_seed for the current index triplet.
IndexConsistentWithAnchors ==
    Anchors(rng) = fixed_anchors(rng.ref_seed, idx)

AdvanceStreamIndex ==
    op' = "advance_stream" => idx' = <<idx[1] + 1, 0, 0>>

AdvanceSubstreamIndex ==
    op' = "advance_substream" => idx' = <<idx[1], idx[2] + 1, 0>>

AdvanceSubsubstreamIndex ==
    op' = "advance_subsubstream" => idx' = <<idx[1], idx[2], idx[3] + 1>>

\* C3: advance_stream adds 1 to index[0] and zeroes index[1] and index[2];
\* advance_substream keeps index[0], adds 1 to index[1] and zeroes index[2];
\* advance_subsubstream keeps index[0] and index[1] and adds 1 to index[2].
IndexRule ==
    [][AdvanceStreamIndex /\ AdvanceSubstreamIndex /\ AdvanceSubsubstreamIndex]_vars

AdvanceStreamAnchors ==
    op' = "advance_stream" =>
        /\ rng'.stream_start = jump(A1p141, A2p141, rng.stream_start)
        /\ rng'.substream_start = rng'.stream_start
        /\ rng'.subsubstream_start = rng'.stream_start
        /\ rng'.current_state = rng'.stream_start

AdvanceSubstreamAnchors ==
    op' = "advance_substream" =>
        /\ rng'.stream_start = rng.stream_start
        /\ rng'.substream_start = jump(A1p94, A2p94, rng.substream_start)
        /\ rng'.subsubstream_start = rng'.substream_start
        /\ rng'.current_state = rng'.substream_start

AdvanceSubsubstreamAnchors ==
    op' = "advance_subsubstream" =>
        /\ rng'.stream_start = rng.stream_start
        /\ rng'.substream_start = rng.substream_start
        /\ rng'.subsubstream_start = jump(A1p47, A2p47, rng.subsubstream_start)
        /\ rng'.current_state = rng'.subsubstream_start

\* C4: an advance applies its level's jump once to its level's anchor, sets
\* every lower anchor and the current state to the result and leaves every
\* higher anchor unchanged.
AnchorRule ==
    [][AdvanceStreamAnchors /\ AdvanceSubstreamAnchors
       /\ AdvanceSubsubstreamAnchors]_vars

\* a substream and a subsubstream have been entered, then the next
\* subsubstream: the three anchors differ
AdvancedBelowDistinctAnchors ==
    /\ op = "advance_subsubstream"
    /\ rng.stream_start # rng.substream_start
    /\ rng.substream_start # rng.subsubstream_start

\* the jump applied n times
RECURSIVE Applied(_, _, _, _)
Applied(A1, A2, state, n) ==
    IF n = 0 THEN state ELSE jump(A1, A2, Applied(A1, A2, state, n - 1))

\* C5: start_fixed_s_ss_sss(rng, [s, ss, sss]) sets stream_start to the 2^141
\* jump applied s times to ref_seed, substream_start to the 2^94 jump applied
\* ss times to stream_start, subsubstream_start to the 2^47 jump applied sss
\* times to substream_start, the current state to subsubstream_start and the
\* index triplet to [s, ss, sss].
StartFixedPostcondition ==
    op = "start_fixed_s_ss_sss" =>
        /\ rng.stream_start = Applied(A1p141, A2p141, rng.ref_seed, arg[1])
        /\ rng.substream_start = Applied(A1p94, A2p94, rng.stream_start, arg[2])
        /\ rng.subsubstream_start
               = Applied(A1p47, A2p47, rng.substream_start, arg[3])
        /\ rng.current_state = rng.subsubstream_start
        /\ idx = arg

StartedDeep == op = "start_fixed_s_ss_sss" /\ arg = <<2, 1, 1>>

ResetStreamRule ==
    op' = "reset_stream" =>
        /\ rng'.current_state = rng.stream_start
        /\ rng'.stream_start = rng.stream_start
        /\ idx' = <<idx[1], 0, 0>>

ResetSubstreamRule ==
    op' = "reset_substream" =>
        /\ rng'.current_state = rng.substream_start
        /\ rng'.substream_start = rng.substream_start
        /\ idx' = <<idx[1], idx[2], 0>>

ResetSubsubstreamRule ==
    op' = "reset_subsubstream" =>
        /\ rng'.current_state = rng.subsubstream_start
        /\ rng'.subsubstream_start = rng.subsubstream_start
        /\ idx' = idx

\* C6: each reset sets the current state to the anchor of its own level and
\* leaves that anchor unchanged; reset_stream zeroes index[1] and index[2],
\* reset_substream zeroes index[2] and keeps index[1], reset_subsubstream
\* changes no index component; none changes index[0].
ResetRule ==
    [][ResetStreamRule /\ ResetSubstreamRule /\ ResetSubsubstreamRule]_vars

\* reset_stream has returned a generator that had left the first stream and
\* gone on from its start
ResetStreamAwayFromSeed ==
    /\ op = "reset_stream"
    /\ idx = <<2, 0, 0>>
    /\ rng.current_state = rng.stream_start
    /\ rng.stream_start # rng.ref_seed

InRange(x, m) == ZLeq(Zero, x) /\ ZLess(x, m)

StateInRange(state) ==
    /\ Len(state) = 6
    /\ \A i \in 1..3 : InRange(state[i], mrgm1)
    /\ \A i \in 4..6 : InRange(state[i], mrgm2)

\* C9: from a ref_seed in range, after any sequence of operations every
\* component of the current state and of the three anchors is in its range:
\* components 1-3 in [0, m1), components 4-6 in [0, m2).
StateRangeInvariant ==
    /\ StateInRange(rng.current_state)
    /\ StateInRange(rng.stream_start)
    /\ StateInRange(rng.substream_start)
    /\ StateInRange(rng.subsubstream_start)

\* the first draw from the default seed, whose second component is negative
\* before line 117 adds m2
DrawnThroughCorrection ==
    /\ op = "random"
    /\ rng.current_state[6] = Int3(24, 7828, 2264)

-----------------------------------------------------------------------------
(* The core step from the corners of the state space                       *)

CornerValues(m) == {Zero, ZOf(1), ZSub(m, ZOf(1))}

CornerStates ==
    {<<x1, x2, x3, y1, y2, y3>> :
        x1 \in CornerValues(mrgm1), x2 \in CornerValues(mrgm1),
        x3 \in CornerValues(mrgm1), y1 \in CornerValues(mrgm2),
        y2 \in CornerValues(mrgm2), y3 \in CornerValues(mrgm2)}

\* rng = MRG32k3a(); rng.seed(state)
InitStep ==
    /\ rng \in {seed(MRG32k3a(DefaultSeed), state) : state \in CornerStates}
    /\ u = <<>> /\ op = "seed" /\ arg = rng.current_state /\ draws = 0
    /\ obs = NoObs
    /\ raised = "" /\ Alone

NextStep == Draw

SpecStep == InitStep /\ [][NextStep]_vars

\* C10: for every state with components in range the integer the core step
\* combines before scaling (p1 - p2 + m1 when p1 <= p2, else p1 - p2) is in
\* [1, m1], so the draw is neither 0 nor 1.
DrawInUnitInterval ==
    op = "random" => ZLeq(ZOf(1), u[1]) /\ ZLeq(u[1], mrgm1)

\* p1 = p2: the draw is the largest one
DrawAtUpperEnd == op = "random" /\ u = <<mrgm1>>

-----------------------------------------------------------------------------
(* start_fixed_s_ss_sss against the advances made one by one               *)

InitEq ==
    /\ rng \in Fresh(RefSeeds)
    /\ u = <<>> /\ op = "init" /\ arg = <<>> /\ draws = 0
    /\ obs = [phase |-> "fresh", calls |-> <<0, 0, 0>>]
    /\ raised = "" /\ Alone

EqStart ==
    /\ obs.phase = "fresh"
    /\ StartFixedAt(<<0, 0, 0>>)
    /\ obs' = [obs EXCEPT !.phase = "stream"]

EqAdvanceStream ==
    /\ obs.phase = "stream"
    /\ obs.calls[1] < MaxEq
    /\ Call("advance_stream", advance_stream(rng))
    /\ obs' = [obs EXCEPT !.calls[1] = @ + 1]

EqAdvanceSubstream ==
    /\ obs.phase \in {"stream", "substream"}
    /\ obs.calls[2] < MaxEq
    /\ Call("advance_substream", advance_substream(rng))
    /\ obs' = [obs EXCEPT !.phase = "substream", !.calls[2] = @ + 1]

EqAdvanceSubsubstream ==
    /\ obs.phase \in {"stream", "substream", "subsubstream"}
    /\ obs.calls[3] < MaxEq
    /\ Call("advance_subsubstream", advance_subsubstream(rng))
    /\ obs' = [obs EXCEPT !.phase = "subsubstream", !.calls[3] = @ + 1]

NextEq ==
    \/ EqStart
    \/ EqAdvanceStream
    \/ EqAdvanceSubstream
    \/ EqAdvanceSubsubstream

SpecEq == InitEq /\ [][NextEq]_vars

SameStateAndAnchors(r1, r2) ==
    /\ r1.current_state = r2.current_state
    /\ Anchors(r1) = Anchors(r2)

\* C1: start_fixed_s_ss_sss(rng, [a, b, c]) leaves the same current state,
\* stream_start, substream_start and subsubstream_start as
\* start_fixed_s_ss_sss(rng, [0, 0, 0]) followed by a calls of advance_stream,
\* then b of advance_substream, then c of advance_subsubstream (0 <= a, b, c
\* <= MaxEq).
EquivalenceInvariant ==
    obs.phase # "fresh" =>
        SameStateAndAnchors(rng, start_fixed_s_ss_sss(rng, obs.calls))

AdvancedToTheCorner ==
    obs.phase = "subsubstream" /\ obs.calls = <<MaxEq, MaxEq, MaxEq>>

-----------------------------------------------------------------------------
(* reset_stream, k advance_substream calls, reset_substream                *)

\* a generator started at some triplet, which then draws
InitIdem ==
    /\ rng \in {start_fixed_s_ss_sss(g, t) : g \in Fresh(Seeds), t \in StartTriplets}
    /\ u = <<>> /\ op = "start_fixed_s_ss_sss" /\ arg = idx /\ draws = 0
    /\ obs = [phase |-> "before", k |-> 0, first |-> <<>>, last |-> <<>>]
    /\ raised = "" /\ Alone

IdemDraw ==
    /\ obs.phase = "before"
    /\ draws < MaxDraws
    /\ Random
    /\ UNCHANGED obs

IdemResetStream ==
    /\ obs.phase = "before"
    /\ Call("reset_stream", reset_stream(rng))
    /\ obs' = [obs EXCEPT !.phase = "advancing"]

\* the caller notes the state after the first and after the latest call
IdemAdvanceSubstream ==
    /\ obs.phase = "advancing"
    /\ obs.k < MaxK
    /\ Call("advance_substream", advance_substream(rng))
    /\ obs' = [obs EXCEPT !.k = @ + 1,
                          !.first = IF obs.k = 0 THEN rng'.current_state ELSE @,
                          !.last = rng'.current_state]

IdemResetSubstream ==
    /\ obs.phase = "advancing"
    /\ obs.k >= 1
    /\ Call("reset_substream", reset_substream(rng))
    /\ obs' = [obs EXCEPT !.phase = "reset"]

NextIdem ==
    \/ IdemDraw
    \/ IdemResetStream
    \/ IdemAdvanceSubstream
    \/ IdemResetSubstream

SpecIdem == InitIdem /\ [][NextIdem]_vars

\* C7 as stated: after reset_stream, k >= 1 calls of advance_substream and
\* reset_substream, the current state is the state immediately after the
\* first of the advance_substream calls.
ResetReturnsToFirstAdvance ==
    obs.phase = "reset" => rng.current_state = obs.first

\* C7 as amended: after reset_stream, k >= 1 calls of advance_substream and
\* reset_substream, the current state is the state immediately after the
\* last of the advance_substream calls.
ResetReturnsToLastAdvance ==
    obs.phase = "reset" => rng.current_state = obs.last

ResetAfterSeveralAdvances ==
    obs.phase = "reset" /\ obs.k = 3 /\ obs.first # obs.last

-----------------------------------------------------------------------------
(* A run, the reset of its level, and the run again                        *)

Levels == {"stream", "substream", "subsubstream"}

AdvanceOf(level) ==
    CASE level = "stream" -> "advance_stream"
      [] level = "substream" -> "advance_substream"
      [] level = "subsubstream" -> "advance_subsubstream"

ResetOf(level) ==
    CASE level = "stream" -> "reset_stream"
      [] level = "substream" -> "reset_substream"
      [] level = "subsubstream" -> "reset_subsubstream"

\* a triplet at the start of a stream, of a substream, of a subsubstream
StartOf(level) ==
    CASE level = "stream" -> <<1, 0, 0>>
      [] level = "substream" -> <<0, 1, 0>>
      [] level = "subsubstream" -> <<0, 1, 1>>

\* what a run at a level does: it draws, and moves within the lower levels
RunOps(level) ==
    CASE level = "stream" ->
            {"random", "advance_substream", "reset_substream",
             "advance_subsubstream", "reset_subsubstream"}
      [] level = "substream" ->
            {"random", "advance_subsubstream", "reset_subsubstream"}
      [] level = "subsubstream" -> {"random"}

\* the generator after the call o(rng) or rng.random()
After(o, r) ==
    CASE o = "random" -> random(r).rng
      [] o = "advance_stream" -> advance_stream(r)
      [] o = "advance_substream" -> advance_substream(r)
      [] o = "advance_subsubstream" -> advance_subsubstream(r)
      [] o = "reset_stream" -> reset_stream(r)
      [] o = "reset_substream" -> reset_substream(r)
      [] o = "reset_subsubstream" -> reset_subsubstream(r)

Returned(o, r) == IF o = "random" THEN <<random(r).u>> ELSE <<>>

Does(o) ==
    /\ rng' = After(o, rng)
    /\ u' = Returned(o, rng)
    /\ op' = o /\ arg' = <<>>
    /\ draws' = IF o = "random" THEN draws + 1 ELSE 0
    /\ Returns

\* a generator started at some triplet that has drawn once
InitReplay ==
    /\ rng \in {random(start_fixed_s_ss_sss(g, <<2, 1, 1>>)).rng : g \in Fresh(RefSeeds)}
    /\ u = <<>> /\ op = "random" /\ arg = <<>> /\ draws = 1
    /\ obs = [phase |-> "position", level |-> "none", script |-> <<>>,
              pos |-> 0, outs1 |-> <<>>, outs2 |-> <<>>]
    /\ raised = "" /\ Alone

Positioned(level) == [obs EXCEPT !.phase = "run1", !.level = level]

ReplayStartFixed ==
    /\ obs.phase = "position"
    /\ \E level \in Levels : StartFixedAt(StartOf(level)) /\ obs' = Positioned(level)

ReplayAdvance ==
    /\ obs.phase = "position"
    /\ \E level \in Levels : Does(AdvanceOf(level)) /\ obs' = Positioned(level)

ReplayReset ==
    /\ obs.phase = "position"
    /\ \E level \in Levels : Does(ResetOf(level)) /\ obs' = Positioned(level)

\* the first run: the caller notes each operation and each variate returned
ReplayRun1 ==
    /\ obs.phase = "run1"
    /\ Len(obs.script) < MaxScript
    /\ \E o \in RunOps(obs.level) :
          /\ Does(o)
          /\ obs' = [obs EXCEPT !.script = Append(@, o), !.outs1 = @ \o u']

ReplayBack ==
    /\ obs.phase = "run1"
    /\ Does(ResetOf(obs.level))
    /\ obs' = [obs EXCEPT !.phase = "run2"]

\* the second run: the noted operations in their order
ReplayRun2 ==
    /\ obs.phase = "run2"
    /\ obs.pos < Len(obs.script)
    /\ Does(obs.script[obs.pos + 1])
    /\ obs' = [obs EXCEPT !.pos = @ + 1, !.outs2 = @ \o u']

NextReplay ==
    \/ ReplayStartFixed
    \/ ReplayAdvance
    \/ ReplayReset
    \/ ReplayRun1
    \/ ReplayBack
    \/ ReplayRun2

SpecReplay == InitReplay /\ [][NextReplay]_vars

\* C8: a generator positioned at the start of a substream draws with
\* advance_subsubstream / reset_subsubstream calls interleaved; after
\* reset_substream the same operations return the same variates in the same
\* order.  Likewise with reset_stream and reset_subsubstream at their levels.
ReplayReturnsSameVariates ==
    obs.phase = "run2" =>
        /\ Len(obs.outs2) <= Len(obs.outs1)
        /\ obs.outs2 = SubSeq(obs.outs1, 1, Len(obs.outs2))
        /\ (obs.pos = Len(obs.script) => obs.outs2 = obs.outs1)

SubstreamRunReplayed ==
    /\ obs.phase = "run2"
    /\ obs.level = "substream"
    /\ obs.script = <<"random", "advance_subsubstream", "random">>
    /\ obs.pos = 3
    /\ Len(obs.outs2) = 2

-----------------------------------------------------------------------------
(* The core step against the residues, and against floor division          *)

\* a*x - b*y
Combine(a, x, b, y) == ZSub(ZMul(ZOf(a), x), ZMul(ZOf(b), y))

\* C11: from (x1, x2, x3, y1, y2, y3) the core step returns new_state =
\* (x2, x3, p1, y2, y3, p2), p1 the non-negative residue of a12*x2 - a13n*x1
\* modulo m1 and p2 that of a21*y3 - a23n*y1 modulo m2.
CoreStepRule ==
    [][op' = "random" =>
         rng'.current_state =
            <<rng.current_state[2], rng.current_state[3],
              ZMod(Combine(mrga12, rng.current_state[2],
                           mrga13n, rng.current_state[1]), mrgm1),
              rng.current_state[5], rng.current_state[6],
              ZMod(Combine(mrga21, rng.current_state[6],
                           mrga23n, rng.current_state[4]), mrgm2)>>]_vars

\* the step from x1 = 1, x2 = 0: a12*x2 - a13n*x1 = -a13n is negative
SteppedFromNegativeCombination ==
    /\ op = "random"
    /\ draws = 1
    /\ rng.current_state[3] = ZSub(mrgm1, ZOf(mrga13n))

\* the quotient rounded toward minus infinity
ZFloorDiv(a, m) ==
    IF a.neg /\ NatDivMod(a.mag, m.mag).r # <<>>
    THEN ZSub(ZTruncDiv(a, m), ZOf(1))
    ELSE ZTruncDiv(a, m)

\* the core step with k1 and k2 computed by floor division, otherwise as it is
component_floor(a, x, b, y, m) ==
    add_if_negative(
        ZSub(Combine(a, x, b, y), ZMul(ZFloorDiv(Combine(a, x, b, y), m), m)), m)

mrg32k3a_floor(state) ==
    combination(state,
                component_floor(mrga12, state[2], mrga13n, state[1], mrgm1),
                component_floor(mrga21, state[6], mrga23n, state[4], mrgm2))

\* C12 as stated: for at least one state in range the step with floor
\* division returns another new_state or another draw than the truncating
\* step (looked for among the corner states and the states reached).
FloorStepDiffersSomewhere ==
    \E state \in CornerStates \cup {rng.current_state} :
        mrg32k3a_floor(state) # mrg32k3a(state)

\* C12 as amended: for every state in range the step with floor division
\* returns the same new_state and the same draw as the truncating step.
FloorStepAgrees ==
    mrg32k3a_floor(rng.current_state) = mrg32k3a(rng.current_state)

\* a state whose first combination is negative and no multiple of m1: the
\* two quotients differ
QuotientsDiffer ==
    ZFloorDiv(Combine(mrga12, rng.current_state[2],
                      mrga13n, rng.current_state[1]), mrgm1)
        # ZTruncDiv(Combine(mrga12, rng.current_state[2],
                            mrga13n, rng.current_state[1]), mrgm1)

-----------------------------------------------------------------------------
(* What a draw changes                                                     *)

\* C16: random() replaces the current state by the core step's new_state,
\* returns that step's u and leaves the three anchors, the index triplet and
\* ref_seed as they were.
DrawFrame ==
    [][op' = "random" =>
         /\ rng'.current_state = mrg32k3a(rng.current_state).new_state
         /\ u' = <<mrg32k3a(rng.current_state).u>>
         /\ Anchors(rng') = Anchors(rng)
         /\ idx' = idx
         /\ rng'.ref_seed = rng.ref_seed]_vars

\* two draws in a subsubstream below the first of its substream
DrawnAwayFromAnchors ==
    /\ op = "random"
    /\ draws = 2
    /\ rng.stream_start # rng.substream_start
    /\ rng.substream_start # rng.subsubstream_start
    /\ rng.current_state # rng.subsubstream_start

-----------------------------------------------------------------------------
(* The generator given states, seeds and triplets of any shape             *)

\* calls with such an argument in one run
MaxCalls == 1

ShortState == <<ZOf(12345), ZOf(12345), ZOf(12345)>>

LongState == DefaultSeed \o <<ZOf(12345)>>

NegativeState == <<ZNeg(ZOf(1)), Zero, Zero, Zero, Zero, ZOf(1)>>

LargeState == <<mrgm1, Zero, ZOf(1), Zero, ZAdd(mrgm2, ZOf(1)), Zero>>

\* the states given to seed and setstate
SeedInputs ==
    {DefaultSeed, LowSeed, ShortState, LongState, NegativeState, LargeState}

\* the seeds given to the constructor
ConstructInputs == {DefaultSeed, ShortState, NegativeState}

\* the lists given to start_fixed_s_ss_sss besides StartTriplets
OddTriplets == {<<>>, <<2>>, <<0, 1>>, <<1, 1, 1, 1>>, <<-1, 0, 0>>}

\* the call name(..., input) that left the generator and the exception as in
\* result
Outcome(name, input, result) ==
    /\ obs.calls < MaxCalls
    /\ rng' = result.rng
    /\ raised' = result.raised
    /\ u' = <<>> /\ op' = name /\ arg' = input /\ draws' = 0
    /\ obs' = [obs EXCEPT !.calls = @ + 1]
    /\ UNCHANGED <<gens, lists>>

\* rng.seed(new_state)
Seed == \E new_state \in SeedInputs : Outcome("seed", new_state, seed_call(rng, new_state))

\* rng.setstate(state) with a state from outside
SetState ==
    \E new_state \in SeedInputs :
        Outcome("setstate", <<new_state, "Random.getstate()">>,
                setstate(rng, <<new_state, "Random.getstate()">>))

\* rng = MRG32k3a(ref_seed)
Construct ==
    \E ref_seed \in ConstructInputs :
        Outcome("MRG32k3a", ref_seed, construct_call(rng, ref_seed))

StartFixedOdd ==
    \E t \in OddTriplets :
        Outcome("start_fixed_s_ss_sss", t, start_fixed_call(rng, t))

InitApi ==
    /\ rng \in Fresh({DefaultSeed})
    /\ u = <<>> /\ op = "init" /\ arg = <<>> /\ draws = 0
    /\ obs = [phase |-> "api", calls |-> 0]
    /\ raised = "" /\ Alone

NextApi ==
    \/ Draw
    \/ AdvanceSubstream
    \/ AdvanceSubsubstream
    \/ ResetStream
    \/ ResetSubstream
    \/ ResetSubsubstream
    \/ Seed
    \/ SetState
    \/ Construct
    \/ StartFixedOdd

SpecApi == InitApi /\ [][NextApi]_vars

\* the state handed to the call just made
Supplied == IF op = "setstate" THEN arg[1] ELSE arg

Malformed(t) == Len(t) # 3 \/ \E i \in 1..Len(t) : t[i] < 0

\* C15 (as stated): the three anchors change only in the advance operations
\* and start_fixed_s_ss_sss; a draw, a seed and every reset leave them as
\* they were.
AnchorsOnlyMovedByAdvances ==
    [][op' \in {"random", "seed", "reset_stream", "reset_substream",
                "reset_subsubstream"}
           => Anchors(rng') = Anchors(rng)]_vars

\* C15 (amended): a draw, a seed and reset_subsubstream leave the three
\* anchors as they were; reset_stream keeps stream_start and sets the two
\* lower anchors to it; reset_substream keeps stream_start and
\* substream_start and sets subsubstream_start to substream_start.
AnchorsFrame ==
    [][/\ op' \in {"random", "seed", "reset_subsubstream"}
           => Anchors(rng') = Anchors(rng)
       /\ op' = "reset_stream"
           => Anchors(rng')
                  = [stream_start |-> rng.stream_start,
                     substream_start |-> rng.stream_start,
                     subsubstream_start |-> rng.stream_start]
       /\ op' = "reset_substream"
           => Anchors(rng')
                  = [stream_start |-> rng.stream_start,
                     substream_start |-> rng.substream_start,
                     subsubstream_start |-> rng.substream_start]]_vars

\* seed has set a state of its own on a generator whose anchors are apart
SeededAwayFromAnchors ==
    /\ op = "seed" /\ raised = ""
    /\ rng.current_state = LowSeed
    /\ rng.stream_start # rng.substream_start
    /\ rng.substream_start # rng.subsubstream_start

RangeRule ==
    [][(/\ op' \in {"seed", "MRG32k3a", "setstate"}
        /\ Len(Supplied') = 6
        /\ ~StateInRange(Supplied'))
           => raised' # "" /\ rng'.current_state # Supplied']_vars

\* C20: start_fixed_s_ss_sss given a list that is not three non-negative
\* integers fails with an error and leaves the generator as it was.
MalformedTripletRule ==
    [][(op' = "start_fixed_s_ss_sss" /\ Malformed(arg'))
           => raised' # "" /\ rng' = rng]_vars

-----------------------------------------------------------------------------
(* A checkpoint taken with getstate and restored with setstate             *)

InitCheckpoint ==
    /\ rng \in Fresh({DefaultSeed})
    /\ u = <<>> /\ op = "init" /\ arg = <<>> /\ draws = 0
    /\ obs = [phase |-> "running"]
    /\ raised = "" /\ Alone

\* s = rng.getstate(): the holder keeps s, and notes the generator as it is
GetState ==
    /\ obs.phase = "running"
    /\ obs' = [phase |-> "saved", s |-> getstate(rng), at |-> rng]
    /\ op' = "getstate" /\ arg' = <<>>
    /\ Returns
    /\ UNCHANGED <<rng, u, draws>>

\* rng.setstate(s)
Restore ==
    /\ obs.phase = "saved"
    /\ rng' = setstate(rng, obs.s).rng
    /\ raised' = setstate(rng, obs.s).raised
    /\ u' = <<>> /\ op' = "setstate" /\ arg' = obs.s /\ draws' = 0
    /\ obs' = [obs EXCEPT !.phase = "restored"]
    /\ UNCHANGED <<gens, lists>>

NextCheckpoint ==
    \/ Draw
    \/ AdvanceSubstream
    \/ AdvanceSubsubstream
    \/ ResetStream
    \/ ResetSubstream
    \/ GetState
    \/ Restore

SpecCheckpoint == InitCheckpoint /\ [][NextCheckpoint]_vars

\* C17: after s = getstate(), any draws, advances and resets, and
\* setstate(s), the current state, the three anchors and the index are the
\* ones the generator had when getstate was called.
RestoredToCheckpoint ==
    op = "setstate" =>
        /\ rng.current_state = obs.at.current_state
        /\ Anchors(rng) = Anchors(obs.at)
        /\ idx = obs.at.s_ss_sss_index

-----------------------------------------------------------------------------
(* Two generators of one holder.  gens[g].s_ss_sss_index is a reference to *)
(* a list in lists: __init__ passes a new [0, 0, 0] to                     *)
(* start_fixed_s_ss_sss, whose line 405 stores the list it is given, and   *)
(* the advances and resets write into that list.  The holder has one list  *)
(* of its own, T, which it passes to start_fixed_s_ss_sss.                 *)

\* calls made on each generator
MaxPairSteps == 2

\* lists[T] is the holder's list
T == 3

\* the generator g with its list read through the reference
View(g) == [gens[g] EXCEPT !.s_ss_sss_index = lists[gens[g].s_ss_sss_index]]

\* what the holder notes of a call on g: the call, its argument's value, the
\* generator after it and the value returned
Note(g, name, input, result) ==
    /\ Len(obs.hist[g]) < MaxPairSteps
    /\ obs' = [who |-> g,
               hist |-> [obs.hist EXCEPT ![g] =
                            Append(@, [op |-> name, arg |-> input,
                                       rng |-> result.rng, u |-> result.u])]]
    /\ u' = result.u /\ op' = name /\ arg' = input
    /\ raised' = "" /\ UNCHANGED <<rng, draws>>

\* a method of g that assigns attributes of g and items of its list
InPlace(g, name, next, value) ==
    /\ gens' = [gens EXCEPT ![g] =
                   [next EXCEPT !.s_ss_sss_index = gens[g].s_ss_sss_index]]
    /\ lists' = [lists EXCEPT ![gens[g].s_ss_sss_index] = next.s_ss_sss_index]
    /\ Note(g, name, <<>>, [rng |-> next, u |-> value])

InitPair ==
    /\ gens = [g \in 1..2 |-> [MRG32k3a(DefaultSeed) EXCEPT !.s_ss_sss_index = g]]
    /\ lists = <<MRG32k3a(DefaultSeed).s_ss_sss_index,
                 MRG32k3a(DefaultSeed).s_ss_sss_index,
                 <<0, 0, 0>>>>
    /\ rng = NoState
    /\ u = <<>> /\ op = "init" /\ arg = <<>> /\ draws = 0
    /\ obs = [who |-> 0, hist |-> <<<<>>, <<>>>>]
    /\ raised = ""

\* u = gens[g].random()
PairDraw(g) ==
    InPlace(g, "random", random(View(g)).rng, <<random(View(g)).u>>)

PairAdvanceStream(g) ==
    /\ View(g).s_ss_sss_index[1] < MaxIdx
    /\ InPlace(g, "advance_stream", advance_stream(View(g)), <<>>)

PairAdvanceSubstream(g) ==
    /\ View(g).s_ss_sss_index[2] < MaxIdx
    /\ InPlace(g, "advance_substream", advance_substream(View(g)), <<>>)

PairResetStream(g) ==
    InPlace(g, "reset_stream", reset_stream(View(g)), <<>>)

\* gens[g].start_fixed_s_ss_sss(T): line 405 makes T the generator's list
PairStartFixed(g) ==
    /\ gens' = [gens EXCEPT ![g] =
                   [start_fixed_s_ss_sss(View(g), lists[T])
                        EXCEPT !.s_ss_sss_index = T]]
    /\ lists' = lists
    /\ Note(g, "start_fixed_s_ss_sss", lists[T],
            [rng |-> start_fixed_s_ss_sss(View(g), lists[T]), u |-> <<>>])

NextPair ==
    \E g \in 1..2 :
        \/ PairDraw(g)
        \/ PairAdvanceStream(g)
        \/ PairAdvanceSubstream(g)
        \/ PairResetStream(g)
        \/ PairStartFixed(g)

SpecPair == InitPair /\ [][NextPair]_vars

\* the calls 1..k noted of the two generators are the same calls with the
\* same arguments
SameCalls(k) ==
    \A j \in 1..k :
        /\ obs.hist[1][j].op = obs.hist[2][j].op
        /\ obs.hist[1][j].arg = obs.hist[2][j].arg

\* C13: two generators constructed from the same ref_seed and given the same
\* calls with equal arguments have, after each call, equal current state,
\* anchors and index, and every draw returns the same variate.
Determinism ==
    \A k \in 1..MaxPairSteps :
        (k <= Len(obs.hist[1]) /\ k <= Len(obs.hist[2]) /\ SameCalls(k))
            => /\ obs.hist[1][k].rng = obs.hist[2][k].rng
               /\ obs.hist[1][k].u = obs.hist[2][k].u

\* C14: a call on one generator changes neither the current state, anchors
\* and index of the other generator nor the holder's list, also when both
\* generators were given that list by start_fixed_s_ss_sss.
Independence ==
    [][/\ \A g \in 1..2 : obs'.who # g => View(g)' = View(g)
       /\ lists'[T] = lists[T]]_vars

-----------------------------------------------------------------------------
(* Generators constructed as the experiment code constructs them           *)

InitBuild ==
    /\ rng \in Fresh({DefaultSeed})
    /\ u = <<>> /\ op = "init" /\ arg = <<>> /\ draws = 0
    /\ obs = NoObs
    /\ raised = "" /\ Alone

\* the constructor call name(input) that left the name rng and the exception
\* as in result
Built(name, input, result) ==
    /\ rng' = result.rng
    /\ raised' = result.raised
    /\ u' = <<>> /\ op' = name /\ arg' = input
    /\ draws' = IF result.raised = "" THEN 0 ELSE draws
    /\ UNCHANGED <<obs, gens, lists>>

\* rng = MRG32k3a()
BuildDefault == Built("MRG32k3a", DefaultSeed, construct_call(rng, DefaultSeed))

\* rng = MRG32k3a(s_ss_sss_index=t)
BuildAt ==
    \E t \in StartTriplets :
        Built("MRG32k3a(s_ss_sss_index)", t, construct_keyword_call(rng, t))

NextBuild ==
    \/ Draw
    \/ AdvanceSubstream
    \/ AdvanceSubsubstream
    \/ ResetSubstream
    \/ BuildDefault
    \/ BuildAt

SpecBuild == InitBuild /\ [][NextBuild]_vars

\* C21: a generator constructed for the triplet [s, ss, sss] has that index
\* and the current state and anchors start_fixed_s_ss_sss derives for it
\* from ref_seed; constructed with no triplet it has index [0, 0, 0] and
\* current state and anchors equal to ref_seed.
ConstructByTriplet ==
    /\ op = "MRG32k3a(s_ss_sss_index)"
           => /\ raised = ""
              /\ rng = start_fixed_s_ss_sss(MRG32k3a(DefaultSeed), arg)
    /\ op = "MRG32k3a"
           => /\ raised = ""
              /\ idx = <<0, 0, 0>>
              /\ rng.current_state = rng.ref_seed
              /\ rng.stream_start = rng.ref_seed
              /\ rng.substream_start = rng.ref_seed
              /\ rng.subsubstream_start = rng.ref_seed

-----------------------------------------------------------------------------
(* Every operation on one generator object, seed and setstate included     *)

InitOps ==
    /\ rng \in Fresh({DefaultSeed})
    /\ u = <<>> /\ op = "init" /\ arg = <<>> /\ draws = 0
    /\ obs = NoObs
    /\ raised = "" /\ Alone

\* the call name(rng, input), which left the generator and the exception as
\* in result
Done(name, input, result) ==
    /\ rng' = result.rng
    /\ raised' = result.raised
    /\ u' = <<>> /\ op' = name /\ arg' = input /\ draws' = 0
    /\ UNCHANGED <<obs, gens, lists>>

\* rng.seed(new_state)
SeedTo == Done("seed", LowSeed, seed_call(rng, LowSeed))

\* rng.setstate(state) with a state kept from a generator at LowSeed
SetStateTo ==
    Done("setstate", getstate(seed(rng, LowSeed)),
         setstate(rng, getstate(seed(rng, LowSeed))))

NextOps ==
    \/ Next
    \/ SeedTo
    \/ SetStateTo

SpecOps == InitOps /\ [][NextOps]_vars

\* C22: no operation on a generator (draw, seed, setstate, advance, reset,
\* start_fixed_s_ss_sss) changes its ref_seed, and start_fixed_s_ss_sss
\* derives the stream's anchor from the ref_seed given at construction.
RefSeedImmutable ==
    [][/\ rng'.ref_seed = rng.ref_seed
       /\ op' = "start_fixed_s_ss_sss"
              => rng'.stream_start
                     = Applied(A1p141, A2p141, DefaultSeed, arg'[1])]_vars

\* seed has set a state of its own on a generator in the third stream, whose
\* ref_seed is still the constructor's
SeededInThirdStream ==
    /\ op = "seed" /\ raised = ""
    /\ rng.current_state = LowSeed
    /\ rng.ref_seed = DefaultSeed
    /\ idx[1] = 2
    /\ rng.stream_start # DefaultSeed

-----------------------------------------------------------------------------
(* A holder that places one generator at every triplet in turn and keeps   *)
(* the state it found there, and the variates of the first two streams     *)

\* variates taken at the start of a stream
MaxVariates == 10

\* the triplet after t, the stream index running fastest
NextTriplet(t) ==
    IF t[1] < MaxEq THEN <<t[1] + 1, t[2], t[3]>>
    ELSE IF t[2] < MaxEq THEN <<0, t[2] + 1, t[3]>>
    ELSE <<0, 0, t[3] + 1>>

LastTriplet == <<MaxEq, MaxEq, MaxEq>>

\* the variates the holder takes where the generator is
Wanted == IF idx \in {<<0, 0, 0>>, <<1, 0, 0>>} THEN MaxVariates ELSE 0

InitVisit ==
    /\ rng \in Fresh(RefSeeds)
    /\ u = <<>> /\ op = "init" /\ arg = <<>> /\ draws = 0
    /\ obs = [seen |-> {[triplet |-> <<0, 0, 0>>, state |-> rng.current_state]},
              variates |-> <<<<>>, <<>>>>]
    /\ raised = "" /\ Alone

\* u = rng.random(), kept
Take ==
    /\ draws < Wanted
    /\ Random
    /\ obs' = [obs EXCEPT !.variates[idx[1] + 1] = Append(@, random(rng).u)]

\* start_fixed_s_ss_sss(rng, the next triplet)
Visit ==
    /\ draws = Wanted
    /\ idx # LastTriplet
    /\ StartFixedAt(NextTriplet(idx))
    /\ obs' = [obs EXCEPT !.seen =
                  @ \cup {[triplet |-> NextTriplet(idx),
                           state |-> start_fixed_s_ss_sss(rng, NextTriplet(idx))
                                         .current_state]}]

NextVisit ==
    \/ Take
    \/ Visit

SpecVisit == InitVisit /\ [][NextVisit]_vars

\* C23: start_fixed_s_ss_sss yields different current states for different
\* triplets with components in 0..MaxEq, and the variates taken from the start
\* of stream 0 and of stream 1 differ at every position.
NonCollision ==
    /\ \A a \in obs.seen : \A b \in obs.seen :
           a.triplet # b.triplet => a.state # b.state
    /\ \A i \in 1..MaxVariates :
           (i <= Len(obs.variates[1]) /\ i <= Len(obs.variates[2]))
               => obs.variates[1][i] # obs.variates[2][i]

\* every triplet has been visited and both streams have given their variates
AllTripletsVisited ==
    /\ Cardinality(obs.seen) = (MaxEq + 1) * (MaxEq + 1) * (MaxEq + 1)
    /\ Len(obs.variates[1]) = MaxVariates
    /\ Len(obs.variates[2]) = MaxVariates

-----------------------------------------------------------------------------
(* The first draw of a generator at the default seed, under Spec           *)

KnownState ==
    <<ZOf(12345), ZOf(12345), Int3(30, 2379, 853),
      ZOf(12345), ZOf(12345), Int3(24, 7828, 2264)>>

\* C24: the core step applied to (12345, ..., 12345) gives the new state
\* (12345, 12345, 3023790853, 12345, 12345, 2478282264) and the draw
\* (3023790853 - 2478282264) * norm.
KnownAnswerDraw ==
    [][(op' = "random" /\ rng.current_state = DefaultSeed)
           => /\ rng'.current_state = KnownState
              /\ u' = <<ZSub(Int3(30, 2379, 853), Int3(24, 7828, 2264))>>]_vars

\* a generator constructed at the default seed has drawn once
FirstDrawFromDefaultSeed ==
    /\ op = "random" /\ draws = 1
    /\ rng.ref_seed = DefaultSeed
    /\ rng.subsubstream_start = DefaultSeed

-----------------------------------------------------------------------------
(* The jump constants recomputed from the base matrices by squaring, as    *)
(* the comments of lines 53-83 say they were made                          *)

\* squarings of the base matrices
MaxSquarings == 141

InitPower ==
    /\ rng \in Fresh(RefSeeds)
    /\ u = <<>> /\ op = "init" /\ arg = <<>> /\ draws = 0
    /\ obs = [k |-> 0, M1 |-> mat33_mod(A1p0, mrgm1), M2 |-> mat33_mod(A2p0, mrgm2)]
    /\ raised = "" /\ Alone

\* obs.M1 = A1p0^(2^obs.k) mod m1 and obs.M2 = A2p0^(2^obs.k) mod m2
Square ==
    /\ obs.k < MaxSquarings
    /\ obs' = [k |-> obs.k + 1,
               M1 |-> mat33_mat33_mod(obs.M1, obs.M1, mrgm1),
               M2 |-> mat33_mat33_mod(obs.M2, obs.M2, mrgm2)]
    /\ op' = "mat33_mat33_mod" /\ u' = <<>> /\ arg' = <<>>
    /\ UNCHANGED <<rng, draws, raised, gens, lists>>

NextPower ==
    \/ Square
    \/ Draw

SpecPower == InitPower /\ [][NextPower]_vars

\* C25: each jump constant is its base matrix raised to the power 2^47, 2^94
\* or 2^141 modulo its modulus, and the base matrices applied to the two
\* halves of a state give the core step's new state.
JumpConstantsArePowers ==
    [][/\ obs'.k = 47 => obs'.M1 = A1p47 /\ obs'.M2 = A2p47
       /\ obs'.k = 94 => obs'.M1 = A1p94 /\ obs'.M2 = A2p94
       /\ obs'.k = 141 => obs'.M1 = A1p141 /\ obs'.M2 = A2p141
       /\ op' = "random"
              => rng'.current_state = jump(A1p0, A2p0, rng.current_state)]_vars

\* the base matrices have been squared 141 times and the generator has drawn
SquaredToTheStreamJump == obs.k = 141 /\ op = "random" /\ draws = 2

-----------------------------------------------------------------------------
(* The anchors against one another, under SpecOps                          *)

\* C26: in every reachable state substream_start is the 2^94 jump applied
\* some number of times to stream_start, and subsubstream_start is the 2^47
\* jump applied some number of times to substream_start.
AnchorsNested ==
    /\ \E j \in 0..MaxIdx :
           rng.substream_start = Applied(A1p94, A2p94, rng.stream_start, j)
    /\ \E k \in 0..MaxIdx :
           rng.subsubstream_start
               = Applied(A1p47, A2p47, rng.substream_start, k)

\* seed has been called on a generator two substreams into its stream and
\* one subsubstream into that substream
SeededTwoSubstreamsDeep ==
    /\ op = "seed"
    /\ rng.substream_start = Applied(A1p94, A2p94, rng.stream_start, 2)
    /\ rng.subsubstream_start = Applied(A1p47, A2p47, rng.substream_start, 1)

-----------------------------------------------------------------------------
(* The current state against the subsubstream's anchor, under Spec         *)

\* the new_state of n core steps from state
RECURSIVE Stepped(_, _)
Stepped(state, n) ==
    IF n = 0 THEN state ELSE mrg32k3a(Stepped(state, n - 1)).new_state

\* C27: right after start_fixed_s_ss_sss, an advance or a reset the current
\* state is subsubstream_start, and while seed and setstate are not called it
\* is the state reached from subsubstream_start by as many core steps as
\* draws were made since that operation.
CurrentFollowsAnchor ==
    /\ op \notin {"init", "random"} => rng.current_state = rng.subsubstream_start
    /\ rng.current_state = Stepped(rng.subsubstream_start, draws)

\* two draws have been made in a subsubstream that is not the first of its
\* substream
DrawnTwiceInSubsubstream ==
    /\ op = "random" /\ draws = 2
    /\ idx[3] = 1
    /\ rng.subsubstream_start # rng.substream_start

-----------------------------------------------------------------------------
(* Advances and resets against the draws made before them, under SpecOps   *)

\* the generator r had no draw or seed moved its current state
Undrawn(r) == [r EXCEPT !.current_state = r.subsubstream_start]

\* the generator r with the current state somewhere else
Moved(r) == {Undrawn(r), seed(r, LowSeed), seed(r, HighSeed)}

\* C28: the generator an advance or a reset leaves does not depend on the
\* current state it finds, that is on the draws and seed calls made since the
\* last hierarchy operation: it is the same from any other current state.
HierarchyIgnoresCurrentState ==
    [][\A r \in Moved(rng) :
           /\ op' = "advance_stream" => rng' = advance_stream(r)
           /\ op' = "advance_substream" => rng' = advance_substream(r)
           /\ op' = "advance_subsubstream" => rng' = advance_subsubstream(r)
           /\ op' = "reset_stream" => rng' = reset_stream(r)
           /\ op' = "reset_substream" => rng' = reset_substream(r)
           /\ op' = "reset_subsubstream" => rng' = reset_subsubstream(r)]_vars

\* advance_subsubstream has taken a generator to the third subsubstream of a
\* substream
AdvancedToThirdSubsubstream ==
    /\ op = "advance_subsubstream" /\ idx[3] = 2
    /\ rng.subsubstream_start # rng.substream_start

-----------------------------------------------------------------------------
(* start_fixed_s_ss_sss against the generator it finds, under SpecOps      *)

\* C29: the generator start_fixed_s_ss_sss leaves depends only on ref_seed
\* and the triplet, not on the current state, anchors and index it finds: it
\* is the one a new generator of that ref_seed is left as, and a second call
\* with the same triplet changes nothing.
StartFixedForgetsHistory ==
    op = "start_fixed_s_ss_sss" =>
        /\ rng = start_fixed_s_ss_sss(MRG32k3a(rng.ref_seed), arg)
        /\ rng = start_fixed_s_ss_sss(rng, arg)

\* start_fixed_s_ss_sss has brought a generator back to the second substream
\* of the first stream
StartedAtSecondSubstream ==
    /\ op = "start_fixed_s_ss_sss" /\ arg = <<0, 1, 0>>
    /\ rng.current_state = jump(A1p94, A2p94, rng.ref_seed)

-----------------------------------------------------------------------------
(* The anchors after the resets, under SpecIdem                            *)

-----------------------------------------------------------------------------
(* The experiment wrapper of simopt/wrapper_base.py.                       *)
(*                                                                         *)
(* The wrapper is written for the consumer-facing generator of spec        *)
(* section 6: it constructs a generator by its index triplet and calls     *)
(* the hierarchy operations as methods.  MRG32k3a_by_triplet is that       *)
(* constructor; rng.advance_substream(), rng.reset_substream(),            *)
(* rng.advance_subsubstream() and rng.reset_subsubstream() are the         *)
(* operations of the same names of mrg32k3a.py.  Every generator is made   *)
(* from a list literal of its own, so gens holds the generators with       *)
(* their index as a value, and obs holds the position in the loops.        *)

MaxMacroreps == 3
MaxRngs == 3

\* MRG32k3a(s_ss_sss_index=[s, ss, sss])
MRG32k3a_by_triplet(s_ss_sss_index) ==
    start_fixed_s_ss_sss(MRG32k3a(DefaultSeed), s_ss_sss_index)

\* the variables the wrapper does not use
NoGenerator ==
    /\ rng = MRG32k3a(DefaultSeed) /\ raised = "" /\ lists = <<>>

Wrapper(name, argument, value) ==
    /\ op' = name /\ arg' = argument /\ u' = value
    /\ UNCHANGED <<rng, raised, lists>>

-----------------------------------------------------------------------------
(* Experiment.run: the generators of the overhead and of the macroreps     *)

\* rng0, rng1, rng2, rng3 of lines 375-378
overhead_rngs == [k \in 1..4 |-> MRG32k3a_by_triplet(<<2, k - 1, 0>>)]

\* progenitor_rngs of line 385
progenitor_rngs(mrep, n_rngs) ==
    [ss \in 1..n_rngs |-> MRG32k3a_by_triplet(<<mrep + 2, ss - 1, 0>>)]

InitRun ==
    /\ NoGenerator
    /\ u = <<>> /\ op = "run" /\ arg = <<>> /\ draws = 0
    /\ gens = <<>>
    /\ \E n_macroreps \in 1..MaxMacroreps, n_rngs \in 1..MaxRngs :
           obs = [phase |-> "run", n_macroreps |-> n_macroreps,
                  n_rngs |-> n_rngs, mrep |-> 0]

\* lines 375-379: gens[1..4] are rng0..rng3
AttachOverhead ==
    /\ obs.phase = "run"
    /\ gens' = overhead_rngs
    /\ obs' = [obs EXCEPT !.phase = "macroreps"]
    /\ draws' = 0
    /\ Wrapper("attach_rngs", <<>>, <<>>)

\* lines 381-386: gens[5..] are the progenitors of macroreplication mrep
Progenitors ==
    /\ obs.phase = "macroreps" /\ obs.mrep < obs.n_macroreps
    /\ gens' = SubSeq(gens, 1, 4) \o progenitor_rngs(obs.mrep, obs.n_rngs)
    /\ obs' = [obs EXCEPT !.phase = "solve"]
    /\ draws' = 0
    /\ Wrapper("progenitor_rngs", <<obs.mrep>>, <<>>)

\* within solver.solve (line 389): a variate from rng_list[1], which is
\* rng2 (neldmd.py line 163)
SolverDraw ==
    /\ obs.phase = "solve" /\ draws < MaxDraws
    /\ gens' = [gens EXCEPT ![3] = random(gens[3]).rng]
    /\ draws' = draws + 1
    /\ Wrapper("get_random_solution", <<>>, <<random(gens[3]).u>>)
    /\ UNCHANGED obs

\* within solver.solve: a variate from a solution's copy of progenitor ss
\* (neldmd.py line 243, copy=True: the progenitor stays)
SimulateDraw ==
    /\ obs.phase = "solve"
    /\ \E ss \in 1..obs.n_rngs :
           Wrapper("simulate", <<ss - 1>>, <<random(gens[4 + ss]).u>>)
    /\ UNCHANGED <<gens, obs, draws>>

\* the end of the loop body, lines 391-395
EndMacrorep ==
    /\ obs.phase = "solve"
    /\ obs' = [obs EXCEPT !.phase = "macroreps", !.mrep = @ + 1]
    /\ draws' = 0
    /\ Wrapper("trim_solver_results", <<>>, <<>>)
    /\ UNCHANGED gens

NextRun ==
    \/ AttachOverhead
    \/ Progenitors
    \/ SolverDraw
    \/ SimulateDraw
    \/ EndMacrorep

SpecRun == InitRun /\ [][NextRun]_vars

ProgenitorStreams ==
    obs.phase = "solve" =>
        \A p \in 5..Len(gens) :
            /\ gens[p].s_ss_sss_index = <<obs.mrep + 2, p - 5, 0>>
            /\ (obs.mrep = 0 /\ p - 4 <= 4) =>
                   /\ gens[p].s_ss_sss_index = overhead_rngs[p - 4].s_ss_sss_index
                   /\ gens[p].current_state = overhead_rngs[p - 4].current_state

\* the first macroreplication of a problem with three generators is being
\* solved and the third progenitor has given the variate rng2 gives
FirstMacrorepOnStream2 ==
    /\ obs.phase = "solve" /\ obs.mrep = 0 /\ obs.n_rngs = 3
    /\ op = "simulate" /\ arg = <<2>>
    /\ u = <<random(overhead_rngs[3]).u>>

-----------------------------------------------------------------------------
(* Experiment.post_replicate: the baseline generators of stream 0          *)

MaxPostMacroreps == 2
MaxBudgets == 2
MaxPostRngs == 2

\* baseline_rngs of line 418 without the skip over the first n_rngs
\* substreams
baseline_rngs_unskipped(n_rngs) ==
    [i \in 1..n_rngs |-> MRG32k3a_by_triplet(<<0, i - 1, 0>>)]

\* baseline_rngs of line 418
baseline_rngs(n_rngs) ==
    [i \in 1..n_rngs |-> MRG32k3a_by_triplet(<<0, n_rngs + i - 1, 0>>)]

\* baseline_rngs of post_normalize, line 769
normalize_rngs(n_rngs) ==
    [i \in 1..n_rngs |-> MRG32k3a_by_triplet(<<0, i - 1, 0>>)]

\* for rng in rngs: rng.reset_substream()
reset_substream_each(rngs) ==
    [i \in 1..Len(rngs) |-> reset_substream(rngs[i])]

\* for _ in range(n): rng.advance_substream()
RECURSIVE advance_substream_times(_, _)
advance_substream_times(r, n) ==
    IF n = 0 THEN r ELSE advance_substream_times(advance_substream(r), n - 1)

\* lines 432-435 with the reset left out
after_budget_unreset(rngs, crn_across_budget) == rngs

\* lines 432-435
after_budget(rngs, crn_across_budget) ==
    IF crn_across_budget THEN reset_substream_each(rngs) ELSE rngs

\* lines 436-445
after_macrorep(rngs, crn_across_macroreps, n_rngs) ==
    IF crn_across_macroreps
    THEN reset_substream_each(rngs)
    ELSE [i \in 1..Len(rngs) |-> advance_substream_times(rngs[i], n_rngs)]

\* the substreams the generators are in, as <<generator, mrep, substream>>
InSubstream(rngs, mrep) ==
    {<<i, mrep, rngs[i].s_ss_sss_index[2]>> : i \in 1..Len(rngs)}

\* what one problem.simulate (line 428) does to every generator of the
\* solution: it takes variates or moves between subsubstreams
Simulations == {"random", "advance_subsubstream", "advance_subsubstream, random"}

simulate(r, how) ==
    CASE how = "random" -> random(r).rng
      [] how = "advance_subsubstream" -> advance_subsubstream(r)
      [] OTHER -> random(advance_subsubstream(r)).rng

\* every macroreplication has recommended MaxBudgets solutions
InitPost ==
    /\ NoGenerator
    /\ u = <<>> /\ op = "post_replicate" /\ arg = <<>> /\ draws = 0
    /\ \E n_macroreps \in 1..MaxPostMacroreps, n_rngs \in 1..MaxPostRngs,
          across_budget, across_macroreps \in BOOLEAN :
           /\ gens = baseline_rngs(n_rngs)
           /\ obs = [phase |-> "simulate", n_macroreps |-> n_macroreps,
                     n_budgets |-> MaxBudgets, n_rngs |-> n_rngs,
                     crn_across_budget |-> across_budget,
                     crn_across_macroreps |-> across_macroreps,
                     mrep |-> 0, budget_index |-> 0,
                     used |-> InSubstream(baseline_rngs(n_rngs), 0)]

\* lines 425-428: the solution at (mrep, budget_index) is simulated with
\* the baseline generators themselves (copy=False)
Simulate ==
    /\ obs.phase = "simulate"
    /\ \E how \in Simulations :
           /\ gens' = [i \in 1..Len(gens) |-> simulate(gens[i], how)]
           /\ Wrapper("simulate", <<how>>, <<>>)
    /\ obs' = [obs EXCEPT !.phase = "simulated"]
    /\ UNCHANGED draws

\* lines 430-435: the end of the body of the loop over budget_index
EndBudget ==
    /\ obs.phase = "simulated"
    /\ gens' = after_budget(gens, obs.crn_across_budget)
    /\ obs' = [obs EXCEPT
                   !.budget_index = @ + 1,
                   !.phase = IF obs.budget_index + 1 = obs.n_budgets
                             THEN "macrorep" ELSE "simulate"]
    /\ Wrapper("end_budget", <<>>, <<>>)
    /\ UNCHANGED draws

\* lines 436-445: the end of the body of the loop over mrep
EndPostMacrorep ==
    /\ obs.phase = "macrorep"
    /\ LET moved == after_macrorep(gens, obs.crn_across_macroreps, obs.n_rngs)
       IN  /\ gens' = moved
           /\ obs' = [obs EXCEPT
                          !.mrep = @ + 1, !.budget_index = 0,
                          !.phase = IF obs.mrep + 1 = obs.n_macroreps
                                    THEN "done" ELSE "simulate",
                          !.used = IF obs.mrep + 1 = obs.n_macroreps THEN @
                                   ELSE @ \cup InSubstream(moved, obs.mrep + 1)]
    /\ Wrapper("end_macrorep", <<>>, <<>>)
    /\ UNCHANGED draws

NextPost ==
    \/ Simulate
    \/ EndBudget
    \/ EndPostMacrorep

SpecPost == InitPost /\ [][NextPost]_vars

-----------------------------------------------------------------------------
(* bootstrap_procedure, bootstrap_sample_all and Experiment.bootstrap_sample: *)
(* the bootstrap generator of stream 1                                     *)

MaxBootstraps == 2
MaxExperiments == 2
MaxPostreps == 2

\* rng.choices(range(k), k=k): Random.choices calls self.random() k times
RECURSIVE choices(_, _)
choices(r, k) == IF k = 0 THEN r ELSE choices(random(r).rng, k - 1)

\* lines 568-570
x0_resampled(r, crn_across_budget) ==
    IF crn_across_budget THEN reset_subsubstream(r) ELSE r

\* lines 596-601
resampled(r, n_postreps, crn_across_budget) ==
    IF crn_across_budget
    THEN reset_subsubstream(choices(r, n_postreps))
    ELSE choices(r, n_postreps)

\* lines 602-609 resetting whatever crn_across_macroreps is
bootstrapped_macrorep_reset(r, crn_across_macroreps) == reset_subsubstream(r)

\* lines 602-609
bootstrapped_macrorep(r, crn_across_macroreps) ==
    IF crn_across_macroreps THEN reset_subsubstream(r)
    ELSE advance_subsubstream(r)

\* line 897 resetting the subsubstream only
sampled_experiment_subsubstream(r) == reset_subsubstream(r)

\* line 897
sampled_experiment(r) == reset_substream(r)

\* bootstrap_procedure line 939; every experiment has n_macroreps
\* macroreplications of MaxBudgets solutions and MaxPostreps postreplications
InitBootstrap ==
    /\ NoGenerator
    /\ u = <<>> /\ op = "bootstrap_procedure" /\ arg = <<>> /\ draws = 0
    /\ gens = <<MRG32k3a_by_triplet(<<1, 0, 0>>)>>
    /\ \E n_bootstraps \in 1..MaxBootstraps, n_experiments \in 1..MaxExperiments,
          n_macroreps \in 1..MaxPostMacroreps :
           obs = [phase |-> "sample", n_bootstraps |-> n_bootstraps,
                  n_experiments |-> n_experiments, n_macroreps |-> n_macroreps,
                  bs_index |-> 0, experiment |-> 0,
                  crn_across_budget |-> FALSE, crn_across_macroreps |-> FALSE,
                  idx |-> 0, budget |-> 0]

Bootstrap(name, next, position) ==
    /\ gens' = <<next>>
    /\ obs' = position
    /\ Wrapper(name, <<>>, <<>>)
    /\ UNCHANGED draws

\* line 895 and line 558: bootstrap_sample of an experiment (with its own
\* crn options) resamples the macroreplications
Outer ==
    /\ obs.phase = "sample"
    /\ \E across_budget, across_macroreps \in BOOLEAN :
           Bootstrap("outer", choices(gens[1], obs.n_macroreps),
                     [obs EXCEPT !.phase = "outer",
                                 !.crn_across_budget = across_budget,
                                 !.crn_across_macroreps = across_macroreps,
                                 !.idx = 0, !.budget = 0])

\* lines 560-570
ResampleX0 ==
    /\ obs.phase = "outer"
    /\ Bootstrap("x0",
                 x0_resampled(choices(advance_subsubstream(gens[1]), MaxPostreps),
                              obs.crn_across_budget),
                 [obs EXCEPT !.phase = "x0"])

\* line 573
ResampleXstar ==
    /\ obs.phase = "x0"
    /\ Bootstrap("xstar", choices(gens[1], MaxPostreps),
                 [obs EXCEPT !.phase = "xstar"])

\* line 580
BeginInner ==
    /\ obs.phase = "xstar"
    /\ Bootstrap("inner", advance_subsubstream(gens[1]),
                 [obs EXCEPT !.phase = "inner"])

\* lines 585-591: the solution is x0 or x*
ReuseEstimate ==
    /\ obs.phase = "inner" /\ obs.budget < MaxBudgets
    /\ Bootstrap("reuse", gens[1], [obs EXCEPT !.budget = @ + 1])

\* lines 593-601: the solution is another one
Resample ==
    /\ obs.phase = "inner" /\ obs.budget < MaxBudgets
    /\ Bootstrap("resample",
                 resampled(gens[1], MaxPostreps, obs.crn_across_budget),
                 [obs EXCEPT !.budget = @ + 1])

\* lines 602-609 and the rest of the loop body
EndBootstrappedMacrorep ==
    /\ obs.phase = "inner" /\ obs.budget = MaxBudgets
    /\ Bootstrap("end_macrorep",
                 bootstrapped_macrorep(gens[1], obs.crn_across_macroreps),
                 [obs EXCEPT !.idx = @ + 1, !.budget = 0,
                             !.phase = IF obs.idx + 1 = obs.n_macroreps
                                       THEN "sampled" ELSE "inner"])

\* bootstrap_sample_all lines 895-897
EndExperiment ==
    /\ obs.phase = "sampled"
    /\ Bootstrap("end_experiment", sampled_experiment(gens[1]),
                 [obs EXCEPT !.experiment = @ + 1,
                             !.phase = IF obs.experiment + 1 = obs.n_experiments
                                       THEN "all" ELSE "sample"])

\* bootstrap_sample_all line 899 and the loop of bootstrap_procedure
EndSample ==
    /\ obs.phase = "all"
    /\ Bootstrap("end_sample", advance_substream(gens[1]),
                 [obs EXCEPT !.bs_index = @ + 1, !.experiment = 0,
                             !.phase = IF obs.bs_index + 1 = obs.n_bootstraps
                                       THEN "done" ELSE "sample"])

NextBootstrap ==
    \/ Outer
    \/ ResampleX0
    \/ ResampleXstar
    \/ BeginInner
    \/ ReuseEstimate
    \/ Resample
    \/ EndBootstrappedMacrorep
    \/ EndExperiment
    \/ EndSample

SpecBootstrap == InitBootstrap /\ [][NextBootstrap]_vars

Subsubstream(r, k) == Applied(A1p47, A2p47, r.substream_start, k)

-----------------------------------------------------------------------------
(* MRG32k3a.random called by two callers whose calls interleave: the       *)
(* statements of lines 186-189 are the steps.  obs.pc[c] is the position   *)
(* of caller c, obs.local[c] its local variables, obs.reads[c] the states  *)
(* it has read and obs.got[c] the variates it has received.                *)

MaxCallsEach == 2

Callers == {1, 2}

\* the generator caller c holds
Held(c) == IF obs.shared THEN 1 ELSE c

NoLocal == [state |-> <<>>, new_state |-> <<>>, u |-> <<>>]

\* line 188 with the step taken again from the state the generator has
\* by then
written_from_current(self, local) ==
    seed(self, mrg32k3a(self.current_state).new_state)

\* line 188: self.seed(new_state)
written(self, local) == seed(self, local.new_state)

InitShare ==
    /\ NoGenerator
    /\ u = <<>> /\ op = "init" /\ arg = <<>> /\ draws = 0
    /\ \E shared \in BOOLEAN, g1, g2 \in Fresh(RefSeeds) :
           /\ gens = IF shared THEN <<g1>> ELSE <<g1, g2>>
           /\ shared => g2 = g1
           /\ obs = [shared |-> shared,
                     pc |-> <<"idle", "idle">>,
                     local |-> <<NoLocal, NoLocal>>,
                     reads |-> << <<>>, <<>> >>,
                     got |-> << <<>>, <<>> >>,
                     start |-> <<g1.current_state, g2.current_state>>]

\* line 186: state = self._current_state
ReadState(c) ==
    /\ obs.pc[c] = "idle" /\ Len(obs.got[c]) < MaxCallsEach
    /\ obs' = [obs EXCEPT
                   !.pc[c] = "read",
                   !.local[c] = [NoLocal EXCEPT
                                     !.state = gens[Held(c)].current_state],
                   !.reads[c] = Append(@, gens[Held(c)].current_state)]
    /\ Wrapper("random: read", <<c>>, <<>>)
    /\ UNCHANGED <<gens, draws>>

\* line 187: new_state, u = self.generate(state)
Generate(c) ==
    /\ obs.pc[c] = "read"
    /\ obs' = [obs EXCEPT
                   !.pc[c] = "generated",
                   !.local[c].new_state = mrg32k3a(obs.local[c].state).new_state,
                   !.local[c].u = mrg32k3a(obs.local[c].state).u]
    /\ Wrapper("random: generate", <<c>>, <<>>)
    /\ UNCHANGED <<gens, draws>>

\* lines 188-189: self.seed(new_state); return u
WriteState(c) ==
    /\ obs.pc[c] = "generated"
    /\ gens' = [gens EXCEPT ![Held(c)] = written(@, obs.local[c])]
    /\ obs' = [obs EXCEPT !.pc[c] = "idle", !.local[c] = NoLocal,
                          !.got[c] = Append(@, obs.local[c].u)]
    /\ Wrapper("random: return", <<c>>, <<obs.local[c].u>>)
    /\ UNCHANGED draws

NextShare ==
    \E c \in Callers :
        \/ ReadState(c)
        \/ Generate(c)
        \/ WriteState(c)

SpecShare == InitShare /\ [][NextShare]_vars

\* caller c is not within a call
NotCalling(c) == obs.pc[c] = "idle"

\* the variates of n calls made one after the other from state
Serial(state, n) == [k \in 1..n |-> mrg32k3a(Stepped(state, k - 1)).u]

\* C36: when two callers have each made n calls on one generator, each call
\* of one interleaved with a call of the other between the read and the
\* write, both have received the same variates and the state is n steps, not
\* 2n, from where it was; when no two calls have read the same state the
\* state is as many steps on as calls were made; and callers with a
\* generator each receive, however their calls interleave, the variates of
\* calls made one after the other.
SharedGeneratorLosesSteps ==
    /\ (obs.shared /\ NotCalling(1) /\ NotCalling(2)) =>
           /\ obs.reads[1] = obs.reads[2] =>
                  /\ obs.got[1] = obs.got[2]
                  /\ gens[1].current_state
                         = Stepped(obs.start[1], Len(obs.got[1]))
           /\ (\A i \in 1..Len(obs.reads[1]), j \in 1..Len(obs.reads[2]) :
                   obs.reads[1][i] # obs.reads[2][j]) =>
                  gens[1].current_state
                      = Stepped(obs.start[1],
                                Len(obs.got[1]) + Len(obs.got[2]))
    /\ ~obs.shared =>
           \A c \in Callers :
               /\ obs.got[c] = Serial(obs.start[c], Len(obs.got[c]))
               /\ NotCalling(c) =>
                      gens[c].current_state
                          = Stepped(obs.start[c], Len(obs.got[c]))

\* both callers of one generator have read the same state, and the second
\* of them has just returned the variate the first had received
BothReadBeforeEitherWrote ==
    /\ obs.shared /\ NotCalling(1) /\ NotCalling(2)
    /\ Len(obs.got[1]) = 1 /\ obs.got[1] = obs.got[2]
    /\ obs.reads[1] = obs.reads[2]
    /\ op = "random: return"
    /\ gens[1].current_state = Stepped(obs.start[1], 1)

-----------------------------------------------------------------------------
(* trim_solver_results.  lists[1] is the list recommended_solns and        *)
(* lists[2] the list intermediate_budgets, both changed in place; a        *)
(* solution is named by its position in the list the solver returned.      *)

MaxTrimLen == 3
MaxBudget == 3

\* every sequence over S of length n
Lists(S, n) == [1..n -> S]

\* line 697 with >= in place of >
invalid_idxs_from_budget(intermediate_budgets, budget) ==
    {k \in 1..Len(intermediate_budgets) : intermediate_budgets[k] >= budget}

\* line 697: invalid_idxs
invalid_idxs(intermediate_budgets, budget) ==
    {k \in 1..Len(intermediate_budgets) : intermediate_budgets[k] > budget}

\* lines 698-700 on one list: del list[invalid_idx], from the last index to
\* the first
RECURSIVE deleted(_, _, _)
deleted(list, invalid, k) ==
    IF k = 0 THEN list
    ELSE deleted(IF k \in invalid
                 THEN SubSeq(list, 1, k - 1) \o SubSeq(list, k + 1, Len(list))
                 ELSE list,
                 invalid, k - 1)

\* lines 704-707 on the trimmed lists
re_recommended(recommended_solns, intermediate_budgets, budget) ==
    IF intermediate_budgets = <<>>
    THEN [raised |-> "IndexError",
          lists |-> <<recommended_solns, intermediate_budgets>>]
    ELSE IF intermediate_budgets[Len(intermediate_budgets)] < budget
    THEN [raised |-> "",
          lists |-> <<Append(recommended_solns,
                             recommended_solns[Len(recommended_solns)]),
                      Append(intermediate_budgets, budget)>>]
    ELSE [raised |-> "",
          lists |-> <<recommended_solns, intermediate_budgets>>]

trim_solver_results(budget, recommended_solns, intermediate_budgets) ==
    LET invalid == invalid_idxs(intermediate_budgets, budget)
    IN  re_recommended(
            deleted(recommended_solns, invalid, Len(recommended_solns)),
            deleted(intermediate_budgets, invalid, Len(intermediate_budgets)),
            budget)

InitTrim ==
    /\ rng = MRG32k3a(DefaultSeed) /\ gens = <<>>
    /\ u = <<>> /\ op = "solve" /\ arg = <<>> /\ draws = 0 /\ raised = ""
    /\ \E n \in 0..MaxTrimLen, budget \in 0..MaxBudget :
           \E intermediate_budgets \in Lists(0..MaxBudget, n) :
               /\ lists = <<[k \in 1..n |-> k], intermediate_budgets>>
               /\ obs = [phase |-> "solved", budget |-> budget,
                         given |-> lists]

\* the call of line 391
TrimResults ==
    /\ obs.phase = "solved"
    /\ LET result == trim_solver_results(obs.budget, lists[1], lists[2])
       IN  /\ lists' = result.lists
           /\ raised' = result.raised
    /\ obs' = [obs EXCEPT !.phase = "trimmed"]
    /\ op' = "trim_solver_results" /\ arg' = <<obs.budget>>
    /\ UNCHANGED <<rng, u, draws, gens>>

\* the next macroreplication's solver returns its lists
SolveAgain ==
    /\ obs.phase = "trimmed"
    /\ \E n \in 0..MaxTrimLen :
           \E intermediate_budgets \in Lists(0..MaxBudget, n) :
               /\ lists' = <<[k \in 1..n |-> k], intermediate_budgets>>
               /\ obs' = [obs EXCEPT !.phase = "solved", !.given = lists']
    /\ raised' = "" /\ op' = "solve" /\ arg' = <<>>
    /\ UNCHANGED <<rng, u, draws, gens>>

NextTrim ==
    \/ TrimResults
    \/ SolveAgain

SpecTrim == InitTrim /\ [][NextTrim]_vars

\* <<solution, budget>> for every position of two lists of one length
Paired(two) == [k \in 1..Len(two[2]) |-> <<two[1][k], two[2][k]>>]

\* the pairs of the given lists with a budget within the problem's, in order
Within(two, budget) ==
    LET affordable(pair) == pair[2] <= budget
    IN  SelectSeq(Paired(two), affordable)

\* C37: given lists of one length with some budget within the problem's,
\* trim_solver_results returns, leaving every budget within the problem's,
\* the lists of one length, the given (solution, budget) pairs that were
\* within the budget in their order, followed only when the last of them is
\* below the problem's budget by that pair's solution at the problem's
\* budget; so the last budget is the problem's.
TrimPostcondition ==
    (/\ obs.phase = "trimmed"
     /\ \E k \in 1..Len(obs.given[2]) : obs.given[2][k] <= obs.budget) =>
        LET kept == Within(obs.given, obs.budget)
            last == kept[Len(kept)]
        IN  /\ raised = ""
            /\ Len(lists[1]) = Len(lists[2])
            /\ \A k \in 1..Len(lists[2]) : lists[2][k] <= obs.budget
            /\ lists[2][Len(lists[2])] = obs.budget
            /\ Paired(lists) = IF last[2] = obs.budget THEN kept
                               ELSE Append(kept, <<last[1], obs.budget>>)

\* a later budget beyond the problem's and an earlier one at it have been
\* trimmed to two solutions, the second re-recommended at the budget
TrimmedAndReRecommended ==
    /\ obs.phase = "trimmed" /\ obs.budget = 2
    /\ obs.given = << <<1, 2, 3>>, <<3, 1, 3>> >>
    /\ lists = << <<2, 2>>, <<1, 2>> >>

====
